---- MODULE Spec2Model ----
(***************************************************************************)
(* Model of the type-expression parser of raml-schema-pydantic:            *)
(*   tokenizer.py   yield_longest_match / tokenize_from_generator          *)
(*   algorithm.py   shunt / shunt_tokens (shunting yard with unary ops)    *)
(*   util.py        pop_before, RPNNode.__str__                            *)
(* A behaviour is one call shunt(input_data, ops, delim_pairs) followed by *)
(* rpn_to_ast on its result and str() of the tree.                         *)
(*                                                                         *)
(* A string is a sequence of one-character strings, a Token is a non-empty *)
(* string, and Python's None is the empty sequence.                        *)
(***************************************************************************)
EXTENDS Integers, Sequences, FiniteSets, TLC

VARIABLES
    ops,            \* argument: the operator list
    delim_pairs,    \* argument: the delimiter pairs
    input_data,     \* argument: the raw input string
    pc,             \* position in the call chain
    tk_input,       \* yield_longest_match: _input_data
    tk_current,     \* yield_longest_match: _current (None or pending basic token)
    tokens,         \* tokens yielded so far; later shunt_tokens' input_data
    data,           \* shunt_tokens: _data (tokens not yet consumed)
    output_queue,   \* shunt_tokens: _output_queue
    op_rpn_stack,   \* shunt_tokens: _op_rpn_stack (top is the last element)
    previous,       \* shunt_tokens: _previous
    rpn_token,      \* shunt_tokens: _rpn_token
    raised,         \* name of the exception raised, or "none"
    ast,            \* result of rpn_to_ast
    printed,        \* result of str(ast)
    super_types     \* UnionTypeExpression: super_types

vars == <<ops, delim_pairs, input_data, pc, tk_input, tk_current, tokens, data,
          output_queue, op_rpn_stack, previous, rpn_token, raised, ast, printed,
          super_types>>

(***************************************************************************)
(* Bounds of the model.                                                    *)
(***************************************************************************)
MaxExprLen == 6     \* lexemes per input with the adapter's operators
MaxNegativeLen == 4 \* lexemes per input with the subtract/negative operators
MaxStringLen == 4   \* characters per input of the tokenizer family
MaxDelimLen == 4    \* lexemes per input with two delimiter pairs
MaxUnaryLen == 3    \* tokens per input with the unary operator family
MaxMixedLen == 4    \* tokens per input with the prefix/binary operator family
MaxBinaryLen == 5   \* tokens per input with the binary operator family
MaxPostfixLen == 4  \* tokens per input with the postfix/binary operator family
MaxInnerLen == 4    \* tokens inside the delimiters of a grouped input of that family
MaxGroupLen == 2    \* tokens inside the delimiters of a grouped input of that family

None == <<>>

(***************************************************************************)
(* Strings.                                                                *)
(***************************************************************************)
RECURSIVE Flatten(_)
Flatten(ss) == IF ss = <<>> THEN <<>> ELSE Head(ss) \o Flatten(Tail(ss))

SeqsUpTo(S, n) == UNION { [1..k -> S] : k \in 0..n }

startswith(s, t) == Len(t) <= Len(s) /\ SubSeq(s, 1, Len(t)) = t

\* removeprefix that drops one character, whatever the length of the prefix
removeprefix_one_character(s, t) == IF startswith(s, t) THEN Tail(s) ELSE s

\* removeprefix that removes nothing
removeprefix_nothing(s, t) == s

removeprefix(s, t) == IF startswith(s, t) THEN SubSeq(s, Len(t) + 1, Len(s)) ELSE s

WHITESPACE_REGEXP == {" "}

RECURSIVE StripWhitespace(_)
StripWhitespace(s) ==
    IF s = <<>> THEN <<>>
    ELSE IF Head(s) \in WHITESPACE_REGEXP THEN StripWhitespace(Tail(s))
    ELSE <<Head(s)>> \o StripWhitespace(Tail(s))

(***************************************************************************)
(* token_types.py: Operator, DelimPair.                                    *)
(* unary is "True", "False" or "both"; unary_position is "prefix",         *)
(* "postfix" or "None".                                                    *)
(***************************************************************************)
Operator(value, precedence, unary, unary_position, associativity) ==
    [value |-> value, precedence |-> precedence, unary |-> unary,
     unary_position |-> unary_position, associativity |-> associativity]

DelimPair(opening, closing) == [opening |-> opening, closing |-> closing]

DEFAULT_DELIMS == << DelimPair(<<"(">>, <<")">>) >>

\* type_expression/_util.py
OPERATOR_UNION == Operator(<<"|">>, 5, "False", "None", "left")
OPERATOR_ARRAY == Operator(<<"[", "]">>, 5, "True", "postfix", "none")
OPS == << OPERATOR_ARRAY, OPERATOR_UNION >>

(***************************************************************************)
(* RPNToken and Sentinel.                                                  *)
(***************************************************************************)
RPNToken(arg_count, values, precedence, associativity) ==
    [arg_count |-> arg_count, values |-> values, precedence |-> precedence,
     associativity |-> associativity]

RPNTokenDefaultPrecedence == 0

Sentinel(awaits) == [awaits |-> awaits]

IsSentinel(e) == "awaits" \in DOMAIN e

\* str(RPNToken): the literal symbols of the value list, placeholders left out
RECURSIVE RPNTokenStr(_)
RPNTokenStr(values) ==
    IF values = <<>> THEN <<>>
    ELSE Head(values) \o RPNTokenStr(Tail(values))

\* `rpn in set_of_tokens`: an RPNToken is a model, never equal to a str
RPNTokenInTokens(rpn, toks) == FALSE

(***************************************************************************)
(* tokenizer.py                                                            *)
(***************************************************************************)
Symbols(o, d) ==
    { d[i].opening : i \in DOMAIN d } \cup { d[i].closing : i \in DOMAIN d }
        \cup { o[i].value : i \in DOMAIN o }

\* sorted(symbols, key=len), the shortest symbol first
RECURSIVE SortedSymbols_ascending(_)
SortedSymbols_ascending(S) ==
    IF S = {} THEN <<>>
    ELSE LET t == CHOOSE t \in S : \A u \in S : Len(t) <= Len(u)
         IN  <<t>> \o SortedSymbols_ascending(S \ {t})

\* sorted(symbols, key=len, reverse=True)
RECURSIVE SortedSymbols(_)
SortedSymbols(S) ==
    IF S = {} THEN <<>>
    ELSE LET t == CHOOSE t \in S : \A u \in S : Len(u) <= Len(t)
         IN  <<t>> \o SortedSymbols(S \ {t})

\* the for loop of yield_longest_match: the first symbol the input starts with
RECURSIVE FirstMatch(_, _)
FirstMatch(sorted, s) ==
    IF sorted = <<>> THEN None
    ELSE IF startswith(s, Head(sorted)) THEN Head(sorted)
    ELSE FirstMatch(Tail(sorted), s)

(***************************************************************************)
(* util.py: pop_before                                                     *)
(***************************************************************************)
\* the standard rule without its test of the associativity
StandardRule_any_associativity(op1, op2) == op1.precedence >= op2.precedence

StandardRule(op1, op2) ==
    \/ op1.precedence > op2.precedence
    \/ (op1.precedence = op2.precedence /\ op2.associativity = "left")

\* pop_before without its rule for unary operators
pop_before_standard_only(op1, op2) == StandardRule(op1, op2)

\* pop_before with "true when op1 is a unary-prefix operator"
pop_before_prefix_first(op1, op2) ==
    IF op2.arg_count = 1 /\ op1.arg_count = 2 THEN FALSE
    ELSE IF op1.arg_count = 1 /\ op1.values[2] = None THEN TRUE
    ELSE StandardRule(op1, op2)

pop_before(op1, op2) ==
    IF op2.arg_count = 1
    THEN IF op1.arg_count = 2 THEN FALSE ELSE StandardRule(op1, op2)
    ELSE IF op1.arg_count = 1 /\ op1.values[1] = None THEN TRUE
    ELSE StandardRule(op1, op2)

(***************************************************************************)
(* algorithm.py: the tables shunt_tokens builds from its arguments         *)
(***************************************************************************)
Max(S) == CHOOSE m \in S : \A n \in S : n <= m

opening_delims(d) == { d[i].opening : i \in DOMAIN d }
closing_delims(d) == { d[i].closing : i \in DOMAIN d }

\* _opening_delim_dict[token]: a later pair overwrites an earlier one
opening_delim_dict(d, token) ==
    d[Max({ i \in DOMAIN d : d[i].opening = token })].closing

operator_tokens(o) == { o[i].value : i \in DOMAIN o }

\* the symbols that are postfix and binary
SanityIntersection_binary_only(o) ==
    { o[i].value : i \in { j \in DOMAIN o : o[j].unary_position = "postfix" } }
        \cap { o[i].value : i \in { j \in DOMAIN o : o[j].unary = "False" } }

\* _sanity_check_operators: the symbols that are postfix and something else
SanityIntersection(o) ==
    { o[i].value : i \in { j \in DOMAIN o : o[j].unary_position = "postfix" } }
        \cap { o[i].value : i \in { j \in DOMAIN o : o[j].unary_position # "postfix" } }

PostfixIdx(o, token) ==
    { i \in DOMAIN o : /\ o[i].value = token
                       /\ o[i].unary # "False"
                       /\ o[i].unary_position = "postfix" }
PrefixIdx(o, token) ==
    { i \in DOMAIN o : /\ o[i].value = token
                       /\ o[i].unary # "False"
                       /\ o[i].unary_position = "prefix" }
NonUnaryIdx(o, token) ==
    { i \in DOMAIN o : o[i].value = token /\ o[i].unary # "True" }

\* the three dictionaries; None stands for a KeyError
unary_postfix_operator_dict(o, token) ==
    IF PostfixIdx(o, token) = {} THEN None
    ELSE LET op == o[Max(PostfixIdx(o, token))]
         IN  RPNToken(1, <<None, op.value>>, op.precedence, op.associativity)

unary_prefix_operator_dict(o, token) ==
    IF PrefixIdx(o, token) = {} THEN None
    ELSE LET op == o[Max(PrefixIdx(o, token))]
         IN  RPNToken(1, <<op.value, None>>, op.precedence, op.associativity)

non_unary_operator_dict(o, token) ==
    IF NonUnaryIdx(o, token) = {} THEN None
    ELSE LET op == o[Max(NonUnaryIdx(o, token))]
         IN  RPNToken(2, <<None, op.value, None>>, op.precedence, op.associativity)

\* the three sets _previous is looked up in
non_unary_operators(o) ==
    { RPNToken(2, <<None, o[i].value, None>>, o[i].precedence, o[i].associativity)
        : i \in DOMAIN o }

unary_postfix_operators(o) ==
    { RPNToken(1, <<None, o[i].value>>, o[i].precedence, "none")
        : i \in { j \in DOMAIN o : o[j].unary_position = "postfix" } }

unary_prefix_operators(o) ==
    { RPNToken(1, <<o[i].value, None>>, o[i].precedence, "none")
        : i \in { j \in DOMAIN o : o[j].unary_position = "prefix" } }

SENTINEL_TOKEN == <<"SENTINEL">>

SentinelRPNToken == RPNToken(0, <<SENTINEL_TOKEN>>, 0, "none")

ValueRPNToken(token) == RPNToken(0, <<token>>, RPNTokenDefaultPrecedence, "none")

(***************************************************************************)
(* algorithm.py: shunt_tokens, one loop iteration as a function of the     *)
(* locals st = [data, output_queue, op_rpn_stack, previous, rpn_token,     *)
(* raised]                                                                 *)
(***************************************************************************)
Raise(st, exc) == [st EXCEPT !.raised = exc]

\* lines 282-297
PrefixExpected(prev, o, d) ==
    \/ prev = None
    \/ RPNTokenInTokens(prev, opening_delims(d))
    \/ prev \in unary_prefix_operators(o)
    \/ prev \in non_unary_operators(o)

PostfixOrBinaryExpected(prev, o, d) ==
    \/ ~RPNTokenInTokens(prev, operator_tokens(o))
    \/ RPNTokenInTokens(prev, closing_delims(d))
    \/ prev \in unary_postfix_operators(o)
    \/ prev.values[1] = SENTINEL_TOKEN

\* the operator branch without its loop of pops
PopOperators_no_pop(stack, out, tok) == <<stack, out>>

\* lines 324-334: <<stack, output>> after the pops
RECURSIVE PopOperators(_, _, _)
PopOperators(stack, out, tok) ==
    IF /\ Len(stack) > 0
       /\ ~IsSentinel(stack[Len(stack)])
       /\ pop_before(stack[Len(stack)], tok)
    THEN PopOperators(SubSeq(stack, 1, Len(stack) - 1),
                      Append(out, stack[Len(stack)]), tok)
    ELSE <<stack, out>>

\* lines 346-348: <<stack, output, ok>>; not ok is the IndexError of [][-1]
RECURSIVE PopToSentinel(_, _)
PopToSentinel(stack, out) ==
    IF Len(stack) = 0 THEN <<stack, out, FALSE>>
    ELSE IF IsSentinel(stack[Len(stack)]) THEN <<stack, out, TRUE>>
    ELSE PopToSentinel(SubSeq(stack, 1, Len(stack) - 1),
                       Append(out, stack[Len(stack)]))

OperatorBranch(st, token, o, d) ==
    LET prefix_unary == PrefixExpected(st.previous, o, d)
        pre  == unary_prefix_operator_dict(o, token)
        post == unary_postfix_operator_dict(o, token)
        bin  == non_unary_operator_dict(o, token)
        tok  == IF prefix_unary THEN pre ELSE IF post # None THEN post ELSE bin
        pp   == PopOperators(st.op_rpn_stack, st.output_queue, tok)
    IN  IF ~prefix_unary /\ ~PostfixOrBinaryExpected(st.previous, o, d)
        THEN Raise(st, "ValueError")
        ELSE IF prefix_unary /\ pre = None
        THEN Raise(st, "UnaryPrefixOperatorExpected")
        ELSE IF ~prefix_unary /\ post = None /\ bin = None
        THEN Raise(st, "BinaryOrUnaryPostfixOperatorExpected")
        ELSE IF ~prefix_unary /\ Len(st.output_queue) = 0
        THEN Raise(st, "StartsWithNonPrefixUnaryOperatorException")
        ELSE [st EXCEPT !.data = Tail(st.data),
                        !.output_queue = pp[2],
                        !.op_rpn_stack = Append(pp[1], tok),
                        !.rpn_token = tok,
                        !.previous = tok]

OpeningDelimBranch(st, token, o, d) ==
    [st EXCEPT !.data = Tail(st.data),
               !.op_rpn_stack = Append(st.op_rpn_stack,
                                       Sentinel(opening_delim_dict(d, token))),
               !.previous = st.rpn_token]

\* the closing delimiter branch without its SENTINEL token (lines 354-359):
\* the last operator popped, if any, stays the current token
ClosingDelimBranch_stale_token(st, token, o, d) ==
    LET pp == PopToSentinel(st.op_rpn_stack, st.output_queue)
        last == IF Len(pp[2]) > Len(st.output_queue)
                THEN pp[2][Len(pp[2])] ELSE st.rpn_token
    IN  IF Len(st.output_queue) = 0
        THEN Raise(st, "StartsWithClosingDelimiterException")
        ELSE IF ~pp[3] THEN Raise(st, "IndexError")
        ELSE IF pp[1][Len(pp[1])].awaits # token
        THEN Raise(st, "NonMatchingDelimitersException")
        ELSE [st EXCEPT !.data = Tail(st.data),
                        !.output_queue = pp[2],
                        !.op_rpn_stack = SubSeq(pp[1], 1, Len(pp[1]) - 1),
                        !.rpn_token = last,
                        !.previous = last]

\* the closing delimiter branch without its comparison with the awaited
\* delimiter (lines 349-353)
ClosingDelimBranch_unchecked(st, token, o, d) ==
    LET pp == PopToSentinel(st.op_rpn_stack, st.output_queue)
    IN  IF Len(st.output_queue) = 0
        THEN Raise(st, "StartsWithClosingDelimiterException")
        ELSE IF ~pp[3] THEN Raise(st, "IndexError")
        ELSE [st EXCEPT !.data = Tail(st.data),
                        !.output_queue = pp[2],
                        !.op_rpn_stack = SubSeq(pp[1], 1, Len(pp[1]) - 1),
                        !.rpn_token = SentinelRPNToken,
                        !.previous = SentinelRPNToken]

ClosingDelimBranch(st, token, o, d) ==
    LET pp == PopToSentinel(st.op_rpn_stack, st.output_queue)
    IN  IF Len(st.output_queue) = 0
        THEN Raise(st, "StartsWithClosingDelimiterException")
        ELSE IF ~pp[3] THEN Raise(st, "IndexError")
        ELSE IF pp[1][Len(pp[1])].awaits # token
        THEN Raise(st, "NonMatchingDelimitersException")
        ELSE [st EXCEPT !.data = Tail(st.data),
                        !.output_queue = pp[2],
                        !.op_rpn_stack = SubSeq(pp[1], 1, Len(pp[1]) - 1),
                        !.rpn_token = SentinelRPNToken,
                        !.previous = SentinelRPNToken]

ValueBranch(st, token, o, d) ==
    [st EXCEPT !.data = Tail(st.data),
               !.output_queue = Append(st.output_queue, ValueRPNToken(token)),
               !.rpn_token = ValueRPNToken(token),
               !.previous = ValueRPNToken(token)]

TokenKind(token, o, d) ==
    IF token \in operator_tokens(o) THEN "operator"
    ELSE IF token \in opening_delims(d) THEN "opening"
    ELSE IF token \in closing_delims(d) THEN "closing"
    ELSE "value"

ShuntIter(st, o, d) ==
    LET token == Head(st.data)
        kind  == TokenKind(token, o, d)
    IN  IF kind = "operator" THEN OperatorBranch(st, token, o, d)
        ELSE IF kind = "opening" THEN OpeningDelimBranch(st, token, o, d)
        ELSE IF kind = "closing" THEN ClosingDelimBranch(st, token, o, d)
        ELSE ValueBranch(st, token, o, d)

\* lines 371-376: <<output, ok>>; not ok is a Sentinel left on the stack
RECURSIVE DrainStack(_, _)
DrainStack(stack, out) ==
    IF Len(stack) = 0 THEN <<out, TRUE>>
    ELSE IF IsSentinel(stack[Len(stack)]) THEN <<out, FALSE>>
    ELSE DrainStack(SubSeq(stack, 1, Len(stack) - 1), Append(out, stack[Len(stack)]))

\* the expected length without the exclusion of the delimiters
ExpectedLength_all_tokens(toks, d) == Len(toks)

\* lines 378-385
ExpectedLength(toks, d) ==
    Cardinality({ i \in DOMAIN toks :
                    toks[i] \notin (closing_delims(d) \cup opening_delims(d)) })

ShuntEnd(st, toks, o, d) ==
    LET dr == DrainStack(st.op_rpn_stack, st.output_queue)
    IN  IF ~dr[2] THEN Raise(st, "UnusedTokensException")
        ELSE IF Len(dr[1]) # ExpectedLength(toks, d) THEN Raise(st, "ValueError")
        ELSE [st EXCEPT !.output_queue = dr[1], !.op_rpn_stack = <<>>]

ShuntStart(toks) ==
    [data |-> toks, output_queue |-> <<>>, op_rpn_stack |-> <<>>,
     previous |-> None, rpn_token |-> None, raised |-> "none"]

(***************************************************************************)
(* util.py: RPNNode, rpn_to_ast, RPNNode.__str__                           *)
(***************************************************************************)
RPNNode(arg_count, value, children) ==
    [arg_count |-> arg_count, value |-> value, children |-> children]

\* <<node, rest, ok>>: one subtree taken from the tail of the postfix list
RECURSIVE ParseAsFarAsPossible(_)
ParseAsFarAsPossible(rpn) ==
    IF rpn = <<>> THEN <<None, <<>>, FALSE>>
    ELSE
      LET current == rpn[Len(rpn)]
          rest    == SubSeq(rpn, 1, Len(rpn) - 1)
      IN  IF current.arg_count = 0
          THEN <<RPNNode(0, current, <<>>), rest, TRUE>>
          ELSE IF current.arg_count = 1
          THEN LET c == ParseAsFarAsPossible(rest)
               IN  IF ~c[3] THEN <<None, <<>>, FALSE>>
                   ELSE <<RPNNode(1, current, <<c[1]>>), c[2], TRUE>>
          ELSE LET r == ParseAsFarAsPossible(rest)
               IN  IF ~r[3] THEN <<None, <<>>, FALSE>>
                   ELSE LET l == ParseAsFarAsPossible(r[2])
                        IN  IF ~l[3] THEN <<None, <<>>, FALSE>>
                            ELSE <<RPNNode(current.arg_count, current, <<l[1], r[1]>>),
                                   l[2], TRUE>>

\* <<node, ok>>; not ok is the resolution error
rpn_to_ast(rpn) ==
    LET p == ParseAsFarAsPossible(rpn)
    IN  IF p[3] /\ p[2] = <<>> THEN <<p[1], TRUE>> ELSE <<None, FALSE>>

\* lines 134-141
LeftNeedsParens(self, left) ==
    /\ left.arg_count > 1
    /\ \/ left.value.precedence < self.value.precedence
       \/ (left.value.precedence = self.value.precedence
             /\ left.value.associativity = "right")
       \/ left.value.associativity = "none"

\* lines 165-172
RightNeedsParens(self, right) ==
    /\ ~pop_before(right.value, self.value)
    /\ right.arg_count > 1

Parens(s) == <<"(">> \o s \o <<")">>

RECURSIVE Str(_)
Str(self) ==
    IF self.arg_count = 0 THEN RPNTokenStr(self.value.values)
    ELSE
      LET left == self.children[1]
          left_child_string ==
              IF LeftNeedsParens(self, left) THEN Parens(Str(left)) ELSE Str(left)
      IN  IF self.arg_count = 1
          THEN IF self.value.values[2] = None
               THEN self.value.values[1] \o left_child_string
               ELSE left_child_string \o self.value.values[2]
          ELSE
            LET right == self.children[2]
                right_child_string ==
                    IF RightNeedsParens(self, right)
                    THEN Parens(Str(right)) ELSE Str(right)
            IN  left_child_string \o RPNTokenStr(self.value.values)
                    \o right_child_string

(***************************************************************************)
(* The state machine.                                                      *)
(***************************************************************************)
Locals ==
    [data |-> data, output_queue |-> output_queue, op_rpn_stack |-> op_rpn_stack,
     previous |-> previous, rpn_token |-> rpn_token, raised |-> raised]

SetLocals(st) ==
    /\ data' = st.data
    /\ output_queue' = st.output_queue
    /\ op_rpn_stack' = st.op_rpn_stack
    /\ previous' = st.previous
    /\ rpn_token' = st.rpn_token
    /\ raised' = st.raised

Args == <<ops, delim_pairs, input_data>>
TokVars == <<tk_input, tk_current, tokens>>
ShuntVars == <<data, output_queue, op_rpn_stack, previous, rpn_token>>

InitLocals ==
    /\ tk_input = <<>>
    /\ tk_current = None
    /\ data = <<>>
    /\ output_queue = <<>>
    /\ op_rpn_stack = <<>>
    /\ previous = None
    /\ rpn_token = None
    /\ raised = "none"
    /\ ast = None
    /\ printed = None
    /\ super_types = None

\* a call shunt(input_data=s, ops=o, delim_pairs=d)
InitShunt(o, d, s) ==
    /\ ops = o
    /\ delim_pairs = d
    /\ input_data = s
    /\ pc = "shunt"
    /\ tokens = <<>>
    /\ InitLocals

\* a call shunt_tokens(input_data=toks, ops=o, delim_pairs=d)
InitShuntTokens(o, d, toks) ==
    /\ ops = o
    /\ delim_pairs = d
    /\ input_data = None
    /\ pc = "shunt_tokens"
    /\ tokens = toks
    /\ InitLocals

\* tokenize_from_generator, line 135: whitespace is removed, the scan starts
TokenizeStart ==
    /\ pc = "shunt"
    /\ tk_input' = StripWhitespace(input_data)
    /\ pc' = "scan"
    /\ UNCHANGED <<Args, tk_current, tokens, ShuntVars, raised, ast, printed, super_types>>

\* yield_longest_match, lines 97-104: a predefined token starts the input
YieldMatch ==
    /\ pc = "scan"
    /\ tk_input # <<>>
    /\ LET token == FirstMatch(SortedSymbols(Symbols(ops, delim_pairs)), tk_input)
       IN  /\ token # None
           /\ tokens' = (IF tk_current # None THEN Append(tokens, tk_current)
                         ELSE tokens) \o <<token>>
           /\ tk_input' = removeprefix(tk_input, token)
           /\ tk_current' = None
    /\ UNCHANGED <<Args, pc, ShuntVars, raised, ast, printed, super_types>>

\* yield_longest_match, lines 105-109: no predefined token starts the input
Accumulate ==
    /\ pc = "scan"
    /\ tk_input # <<>>
    /\ FirstMatch(SortedSymbols(Symbols(ops, delim_pairs)), tk_input) = None
    /\ tk_current' = (IF tk_current = None THEN <<>> ELSE tk_current)
                        \o SubSeq(tk_input, 1, 1)
    /\ tk_input' = Tail(tk_input)
    /\ UNCHANGED <<Args, pc, tokens, ShuntVars, raised, ast, printed, super_types>>

\* yield_longest_match, lines 110-116, and the return of tokenize_from_generator
TokenizeReturn ==
    /\ pc = "scan"
    /\ tk_input = <<>>
    /\ tokens' = (IF tk_current # None THEN Append(tokens, tk_current) ELSE tokens)
    /\ tk_current' = None
    /\ pc' = "shunt_tokens"
    /\ UNCHANGED <<Args, tk_input, ShuntVars, raised, ast, printed, super_types>>

\* shunt_tokens, lines 164-245: the sanity check and the locals
ShuntTokensEnter ==
    /\ pc = "shunt_tokens"
    /\ IF SanityIntersection(ops) # {}
       THEN /\ raised' = "ValueError"
            /\ pc' = "raised"
            /\ UNCHANGED ShuntVars
       ELSE /\ SetLocals(ShuntStart(tokens))
            /\ pc' = "loop"
    /\ UNCHANGED <<Args, TokVars, ast, printed, super_types>>

\* shunt_tokens, lines 247-369: one iteration of the loop
ShuntStep ==
    LET st == ShuntIter(Locals, ops, delim_pairs)
    IN  /\ SetLocals(st)
        /\ pc' = IF st.raised = "none" THEN "loop" ELSE "raised"
        /\ UNCHANGED <<Args, TokVars, ast, printed, super_types>>

ShuntOperator ==
    /\ pc = "loop"
    /\ data # <<>>
    /\ TokenKind(Head(data), ops, delim_pairs) = "operator"
    /\ ShuntStep

ShuntOpeningDelim ==
    /\ pc = "loop"
    /\ data # <<>>
    /\ TokenKind(Head(data), ops, delim_pairs) = "opening"
    /\ ShuntStep

ShuntClosingDelim ==
    /\ pc = "loop"
    /\ data # <<>>
    /\ TokenKind(Head(data), ops, delim_pairs) = "closing"
    /\ ShuntStep

ShuntValue ==
    /\ pc = "loop"
    /\ data # <<>>
    /\ TokenKind(Head(data), ops, delim_pairs) = "value"
    /\ ShuntStep

\* shunt_tokens, lines 371-386
ShuntReturn ==
    /\ pc = "loop"
    /\ data = <<>>
    /\ LET st == ShuntEnd(Locals, tokens, ops, delim_pairs)
       IN  /\ SetLocals(st)
           /\ pc' = IF st.raised = "none" THEN "returned" ELSE "raised"
    /\ UNCHANGED <<Args, TokVars, ast, printed, super_types>>

RpnToAst ==
    /\ pc = "returned"
    /\ LET r == rpn_to_ast(output_queue)
       IN  IF r[2]
           THEN /\ ast' = r[1]
                /\ pc' = "ast"
                /\ UNCHANGED raised
           ELSE /\ raised' = "ResolutionError"
                /\ pc' = "raised"
                /\ UNCHANGED ast
    /\ UNCHANGED <<Args, TokVars, ShuntVars, printed, super_types>>

StrAst ==
    /\ pc = "ast"
    /\ printed' = Str(ast)
    /\ pc' = "done"
    /\ UNCHANGED <<Args, TokVars, ShuntVars, raised, ast, super_types>>

\* tokenize_from_generator alone
NextTokenize ==
    \/ TokenizeStart
    \/ YieldMatch
    \/ Accumulate
    \/ TokenizeReturn

\* shunt_tokens alone
NextShuntTokens ==
    \/ ShuntTokensEnter
    \/ ShuntOperator
    \/ ShuntOpeningDelim
    \/ ShuntClosingDelim
    \/ ShuntValue
    \/ ShuntReturn

\* shunt, then rpn_to_ast and str
Next ==
    \/ NextTokenize
    \/ NextShuntTokens
    \/ RpnToAst
    \/ StrAst

(***************************************************************************)
(* The whole of shunt_tokens and of shunt as functions of their arguments: *)
(* [raised, output]                                                        *)
(***************************************************************************)
RECURSIVE ShuntLoop(_, _, _, _)
ShuntLoop(st, toks, o, d) ==
    IF st.raised # "none" THEN [raised |-> st.raised, output |-> <<>>]
    ELSE IF st.data = <<>>
    THEN LET e == ShuntEnd(st, toks, o, d)
         IN  [raised |-> e.raised,
              output |-> IF e.raised = "none" THEN e.output_queue ELSE <<>>]
    ELSE ShuntLoop(ShuntIter(st, o, d), toks, o, d)

shunt_tokens(toks, o, d) ==
    IF SanityIntersection(o) # {} THEN [raised |-> "ValueError", output |-> <<>>]
    ELSE ShuntLoop(ShuntStart(toks), toks, o, d)

\* yield_longest_match run to its end
RECURSIVE YieldAll(_, _, _, _)
YieldAll(s, current, toks, sorted) ==
    IF s = <<>>
    THEN IF current # None THEN Append(toks, current) ELSE toks
    ELSE LET token == FirstMatch(sorted, s)
         IN  IF token # None
             THEN YieldAll(removeprefix(s, token), None,
                           (IF current # None THEN Append(toks, current) ELSE toks)
                               \o <<token>>, sorted)
             ELSE YieldAll(Tail(s), current \o SubSeq(s, 1, 1), toks, sorted)

tokenize_from_generator(s, o, d) ==
    YieldAll(StripWhitespace(s), None, <<>>, SortedSymbols(Symbols(o, d)))

shunt(s, o, d) == shunt_tokens(tokenize_from_generator(s, o, d), o, d)

(***************************************************************************)
(* Inputs.  A lexeme is a string; an input string is a concatenation of    *)
(* lexemes, an input token list a sequence of them.                        *)
(***************************************************************************)
Inputs(lexemes, n) == { Flatten(ls) : ls \in SeqsUpTo(lexemes, n) }

\* the adapter's calls: OPS with the default delimiters
AdapterLexemes == { <<"A">>, <<"|">>, <<"[", "]">>, <<"(">>, <<")">> }

InitAdapter ==
    \E s \in Inputs(AdapterLexemes, MaxExprLen) : InitShunt(OPS, DEFAULT_DELIMS, s)

\* calls of shunt with "-" as the binary subtract and the prefix negative
NegativeOps ==
    << Operator(<<"-">>, 2, "False", "None", "left"),
       Operator(<<"-">>, 3, "True", "prefix", "none") >>

NegativeLexemes == { <<"A">>, <<"-">>, <<"(">>, <<")">> }

InitNegative ==
    \E s \in Inputs(NegativeLexemes, MaxNegativeLen) :
        InitShunt(NegativeOps, DEFAULT_DELIMS, s)

Init == InitAdapter \/ InitNegative

Spec == Init /\ [][Next]_vars

\* calls of shunt_tokens with two prefix and two postfix operators, whose
\* precedences and associativity vary, and one binary operator
PrecedencePairs == { <<1, 2>>, <<2, 1>>, <<1, 1>> }
Associativities == { "none", "left", "right" }

UnaryOps(p, a) ==
    << Operator(<<"-">>, p[1], "True", "prefix", a),
       Operator(<<"~">>, p[2], "True", "prefix", a),
       Operator(<<"!">>, p[1], "True", "postfix", a),
       Operator(<<"?">>, p[2], "True", "postfix", a),
       Operator(<<"+">>, 1, "False", "None", "left") >>

UnaryLexemes ==
    { <<"A">>, <<"-">>, <<"~">>, <<"!">>, <<"?">>, <<"+">>, <<"(">>, <<")">> }

InitUnary ==
    \E p \in PrecedencePairs, a \in Associativities,
       toks \in SeqsUpTo(UnaryLexemes, MaxUnaryLen) :
        InitShuntTokens(UnaryOps(p, a), DEFAULT_DELIMS, toks)

SpecUnary == InitUnary /\ [][NextShuntTokens]_vars

\* calls of shunt_tokens with a prefix operator "-" of precedence p[1] and
\* associativity a, and the binary operators "-" (left-associative) and "^"
\* (of associativity b), both of precedence p[2]
BinaryAssociativities == { "left", "right" }

MixedOps(p, a, b) ==
    << Operator(<<"-">>, p[1], "True", "prefix", a),
       Operator(<<"-">>, p[2], "False", "None", "left"),
       Operator(<<"^">>, p[2], "False", "None", b) >>

MixedLexemes == { <<"A">>, <<"B">>, <<"-">>, <<"^">>, <<"(">>, <<")">> }

InitMixed ==
    \E p \in PrecedencePairs, a \in Associativities, b \in BinaryAssociativities,
       toks \in SeqsUpTo(MixedLexemes, MaxMixedLen) :
        InitShuntTokens(MixedOps(p, a, b), DEFAULT_DELIMS, toks)

SpecMixed == InitMixed /\ [][NextShuntTokens]_vars

\* calls of shunt_tokens with the binary operators "*" and "+", whose
\* precedences and associativities vary; a short token list may be grouped
BinaryOps(p, a, b) ==
    << Operator(<<"*">>, p[1], "False", "None", a),
       Operator(<<"+">>, p[2], "False", "None", b) >>

BinaryLexemes == { <<"A">>, <<"B">>, <<"*">>, <<"+">> }

Grouped(toks) == << <<"(">> >> \o toks \o << <<")">> >>

InitBinary ==
    \E p \in PrecedencePairs, a \in Associativities, b \in Associativities,
       toks \in SeqsUpTo(BinaryLexemes, MaxBinaryLen)
                  \cup { Grouped(t) : t \in SeqsUpTo(BinaryLexemes, MaxGroupLen) } :
        InitShuntTokens(BinaryOps(p, a, b), DEFAULT_DELIMS, toks)

SpecBinary == InitBinary /\ [][NextShuntTokens]_vars

\* calls of shunt_tokens with a postfix operator "[]" and a binary operator
\* "|" whose relative precedence, and the associativity of "[]", vary; the inputs are all short token lists
\* and the groupings "(" g ")" and "(" g ")" "[]" of longer lists g
ARRAY == <<"[", "]">>

PostfixOps(p, a) ==
    << Operator(ARRAY, p[1], "True", "postfix", a),
       Operator(<<"|">>, p[2], "False", "None", "left") >>

PostfixLexemes == { <<"A">>, <<"B">>, <<"|">>, ARRAY, <<"(">>, <<")">> }
InnerLexemes == { <<"A">>, <<"B">>, <<"|">>, ARRAY }

InitPostfix ==
    \E p \in PrecedencePairs, a \in Associativities,
       toks \in SeqsUpTo(PostfixLexemes, MaxPostfixLen)
                  \cup { Grouped(g) : g \in SeqsUpTo(InnerLexemes, MaxInnerLen) }
                  \cup { Grouped(g) \o <<ARRAY>> :
                            g \in SeqsUpTo(InnerLexemes, MaxInnerLen) } :
        InitShuntTokens(PostfixOps(p, a), DEFAULT_DELIMS, toks)

SpecPostfix == InitPostfix /\ [][NextShuntTokens]_vars

\* calls of tokenize_from_generator: strings with whitespace, and predefined
\* tokens of which some are prefixes of others
TokenizerChars == { "A", " ", "[", "]", "|" }

OperatorsOf(values) ==
    [i \in DOMAIN values |-> Operator(values[i], 0, "False", "None", "left")]

PredefinedChoices ==
    { <<>>,
      << ARRAY >>,
      << <<"[">>, ARRAY >>,
      << <<"|">>, ARRAY >>,
      << <<"|", "[">>, ARRAY, <<"|">> >>,
      << <<"A", "[">>, <<"[">>, <<"]">> >> }

DelimChoices == { <<>>, << DelimPair(<<"[">>, <<"]">>) >> }

InitTokenize ==
    \E values \in PredefinedChoices, d \in DelimChoices,
       s \in SeqsUpTo(TokenizerChars, MaxStringLen) :
        InitShunt(OperatorsOf(values), d, s)

SpecTokenize == InitTokenize /\ [][NextTokenize]_vars

\* calls of shunt with the delimiter pairs "(" ")" and "[" "]" and a binary "+"
NESTED_DELIMS == << DelimPair(<<"(">>, <<")">>), DelimPair(<<"[">>, <<"]">>) >>

DelimOps == << Operator(<<"+">>, 2, "False", "None", "left") >>

DelimLexemes == { <<"A">>, <<"+">>, <<"(">>, <<")">>, <<"[">>, <<"]">> }

InitDelims ==
    \E s \in Inputs(DelimLexemes, MaxDelimLen) : InitShunt(DelimOps, NESTED_DELIMS, s)

NextShunt == NextTokenize \/ NextShuntTokens

SpecDelims == InitDelims /\ [][NextShunt]_vars

(***************************************************************************)
(* The grammar of type expressions over the adapter's operators, written   *)
(* without whitespace and with only the parentheses the grouping needs:    *)
(*   union ::= array | union "|" array                                     *)
(*   array ::= name | array "[]" | "(" union "|" array ")" "[]"            *)
(***************************************************************************)
NameChars == {"A", "B"}

IsName(s) == s # <<>> /\ \A i \in DOMAIN s : s[i] \in NameChars

RECURSIVE IsArrayExpr(_), IsGroupedUnion(_), IsProperUnion(_), IsUnionExpr(_)
IsArrayExpr(s) ==
    \/ IsName(s)
    \/ /\ Len(s) >= 3
       /\ SubSeq(s, Len(s) - 1, Len(s)) = <<"[", "]">>
       /\ \/ IsArrayExpr(SubSeq(s, 1, Len(s) - 2))
          \/ IsGroupedUnion(SubSeq(s, 1, Len(s) - 2))

IsGroupedUnion(s) ==
    /\ Len(s) >= 5
    /\ s[1] = "("
    /\ s[Len(s)] = ")"
    /\ IsProperUnion(SubSeq(s, 2, Len(s) - 1))

IsProperUnion(s) ==
    \E i \in 2..(Len(s) - 1) :
        /\ s[i] = "|"
        /\ IsUnionExpr(SubSeq(s, 1, i - 1))
        /\ IsArrayExpr(SubSeq(s, i + 1, Len(s)))

IsUnionExpr(s) == IsArrayExpr(s) \/ IsProperUnion(s)

(***************************************************************************)
(* C1: round trip over the adapter's operators.  For every valid type      *)
(* expression s written without whitespace and with only the parentheses   *)
(* its grouping needs, shunt(s, OPS) and rpn_to_ast succeed and            *)
(* str(rpn_to_ast(shunt(s, OPS))) = s.                                     *)
(***************************************************************************)
C1_RoundTrip ==
    (/\ pc \in {"done", "raised"}
     /\ ops = OPS
     /\ delim_pairs = DEFAULT_DELIMS
     /\ IsUnionExpr(input_data))
        => (pc = "done" /\ printed = input_data)

\* the expressions without a parenthesized group do round-trip
C1_RoundTripNoGroup ==
    (/\ pc \in {"done", "raised"}
     /\ ops = OPS
     /\ delim_pairs = DEFAULT_DELIMS
     /\ IsUnionExpr(input_data)
     /\ \A i \in DOMAIN input_data : input_data[i] # "(")
        => (pc = "done" /\ printed = input_data)

(***************************************************************************)
(* Reading the state of shunt_tokens.                                      *)
(***************************************************************************)
ConsumedCount == Len(tokens) - Len(data)

AtOperator ==
    /\ pc = "loop"
    /\ data # <<>>
    /\ TokenKind(Head(data), ops, delim_pairs) = "operator"

\* the token processed before the current one was an operand or an operator
AfterOperandOrOperator ==
    /\ ConsumedCount > 0
    /\ TokenKind(tokens[ConsumedCount], ops, delim_pairs) \in {"operator", "value"}

IsPrefixOp(t) == t # None /\ t.arg_count = 1 /\ t.values[2] = None
IsPostfixOp(t) == t # None /\ t.arg_count = 1 /\ t.values[1] = None
IsBinaryOp(t) == t # None /\ t.arg_count = 2
IsOperand(t) == t # None /\ t.arg_count = 0

\* the literal symbols of a postfix sequence
Symbols_of(rpn) == [i \in DOMAIN rpn |-> RPNTokenStr(rpn[i].values)]

(***************************************************************************)
(* The previous token and the resolution of an operator.                   *)
(***************************************************************************)
C2_PrefixExpected ==
    ConsumedCount = 0 \/ IsPrefixOp(previous) \/ IsBinaryOp(previous)

C2_Step ==
    (AtOperator /\ (ConsumedCount = 0 \/ AfterOperandOrOperator))
        => /\ pc' = "loop" => (IsPrefixOp(rpn_token') <=> C2_PrefixExpected)
           /\ pc' = "raised" =>
                (raised' = "UnaryPrefixOperatorExpected" <=> C2_PrefixExpected)

(***************************************************************************)
(* C2: arity disambiguation from the previous token.  An operator symbol   *)
(* is resolved as a unary-prefix operator when it is the first token or    *)
(* the previously processed token was a unary-prefix or a binary operator, *)
(* and as a unary-postfix or binary operator when the previously processed *)
(* token was an operand or a unary-postfix operator, for every precedence  *)
(* and associativity the operators declare.                                *)
(***************************************************************************)
C2_ArityFromPrevious == [][C2_Step]_vars

\* the same for operators declared with associativity "none"
C2_StepNone ==
    (\A i \in DOMAIN ops : ops[i].unary = "True" => ops[i].associativity = "none")
        => C2_Step

C2_ArityFromPreviousNone == [][C2_StepNone]_vars

(***************************************************************************)
(* Chains of unary operators.                                              *)
(***************************************************************************)
PrefixSymbols == { <<"-">>, <<"~">> }
PostfixSymbols == { <<"!">>, <<"?">> }

UnaryDeclaredNone ==
    \A i \in DOMAIN ops : ops[i].unary = "True" => ops[i].associativity = "none"

IsPrefixChain(toks) ==
    /\ Len(toks) = 3
    /\ toks[1] \in PrefixSymbols /\ toks[2] \in PrefixSymbols
    /\ toks[3] = <<"A">>

IsPostfixChain(toks) ==
    /\ Len(toks) = 3
    /\ toks[1] = <<"A">>
    /\ toks[2] \in PostfixSymbols /\ toks[3] \in PostfixSymbols

(***************************************************************************)
(* C5: chains of unary operators are emitted in application order,         *)
(* independent of precedence.  For prefix operators P1, P2 and a value V   *)
(* the tokens [P1, P2, V] yield [V, P2, P1]; for postfix operators Q1, Q2  *)
(* the tokens [V, Q1, Q2] yield [V, Q1, Q2], whichever of the two has the  *)
(* higher precedence.  Stated for operators declared with associativity    *)
(* "none", as the operator of test_double_prefix is.                       *)
(***************************************************************************)
C5_UnaryChains ==
    (pc \in {"returned", "raised"} /\ UnaryDeclaredNone)
        => /\ IsPrefixChain(tokens) =>
                /\ pc = "returned"
                /\ Symbols_of(output_queue) = <<tokens[3], tokens[2], tokens[1]>>
           /\ IsPostfixChain(tokens) =>
                /\ pc = "returned"
                /\ Symbols_of(output_queue) = tokens

\* the chains whose first operator does not have the higher precedence (prefix)
\* or does not have the lower precedence (postfix)
C5_UnaryChainsOrdered ==
    (pc \in {"returned", "raised"} /\ UnaryDeclaredNone)
        => /\ (IsPrefixChain(tokens) /\ ~ (ops[1].precedence > ops[2].precedence
                                           /\ tokens[1] = <<"-">> /\ tokens[2] = <<"~">>)
                                     /\ ~ (ops[2].precedence > ops[1].precedence
                                           /\ tokens[1] = <<"~">> /\ tokens[2] = <<"-">>)) =>
                /\ pc = "returned"
                /\ Symbols_of(output_queue) = <<tokens[3], tokens[2], tokens[1]>>

(***************************************************************************)
(* One symbol as prefix and as binary operator.                            *)
(***************************************************************************)
Operands == { <<"A">>, <<"B">> }
BinarySymbols == { <<"-">>, <<"^">> }

Arities_of(rpn) == [i \in DOMAIN rpn |-> rpn[i].arg_count]

IsXBPY(toks) ==
    /\ Len(toks) = 4
    /\ toks[1] \in Operands /\ toks[2] \in BinarySymbols
    /\ toks[3] = <<"-">> /\ toks[4] \in Operands

IsXMinusY(toks) ==
    /\ Len(toks) = 3
    /\ toks[1] \in Operands /\ toks[2] = <<"-">> /\ toks[3] \in Operands

IsPXBY(toks) ==
    /\ Len(toks) = 4
    /\ toks[1] = <<"-">> /\ toks[2] \in Operands
    /\ toks[3] \in BinarySymbols /\ toks[4] \in Operands

(***************************************************************************)
(* C3: prefix versus binary use of one symbol.  With a unary-prefix        *)
(* operator P and a binary operator B (P may share its symbol with a       *)
(* binary operator), the tokens x B P y yield x y P B whatever the         *)
(* precedences; x - y yields x y - with "-" binary; and P x B y yields     *)
(* x y B P when P's precedence is lower than B's and x P y B when it is    *)
(* higher.                                                                 *)
(***************************************************************************)
C3_PrefixVersusBinary ==
    pc \in {"returned", "raised"}
        => /\ IsXBPY(tokens) =>
                /\ pc = "returned"
                /\ Symbols_of(output_queue)
                     = <<tokens[1], tokens[4], tokens[3], tokens[2]>>
                /\ Arities_of(output_queue) = <<0, 0, 1, 2>>
           /\ IsXMinusY(tokens) =>
                /\ pc = "returned"
                /\ Symbols_of(output_queue) = <<tokens[1], tokens[3], tokens[2]>>
                /\ Arities_of(output_queue) = <<0, 0, 2>>
           /\ (IsPXBY(tokens) /\ ops[1].precedence < ops[2].precedence) =>
                /\ pc = "returned"
                /\ Symbols_of(output_queue)
                     = <<tokens[2], tokens[4], tokens[3], tokens[1]>>
                /\ Arities_of(output_queue) = <<0, 0, 2, 1>>
           /\ (IsPXBY(tokens) /\ ops[1].precedence > ops[2].precedence) =>
                /\ pc = "returned"
                /\ Symbols_of(output_queue)
                     = <<tokens[2], tokens[1], tokens[4], tokens[3]>>
                /\ Arities_of(output_queue) = <<0, 1, 0, 2>>

\* A ^ - B was shunted with "^" binding tighter than the prefix "-"
C3_Witness ==
    /\ pc = "returned"
    /\ tokens = << <<"A">>, <<"^">>, <<"-">>, <<"B">> >>
    /\ ops[1].precedence < ops[2].precedence
    /\ ops[1].associativity = "left"
    /\ Symbols_of(output_queue) = << <<"A">>, <<"B">>, <<"-">>, <<"^">> >>

(***************************************************************************)
(* Two binary operators in a row of operands.                              *)
(***************************************************************************)
ArithSymbols == { <<"*">>, <<"+">> }

IsXAYBZ(toks) ==
    /\ Len(toks) = 5
    /\ toks[1] \in Operands /\ toks[3] \in Operands /\ toks[5] \in Operands
    /\ toks[2] \in ArithSymbols /\ toks[4] \in ArithSymbols

DeclaredAs(sym) == ops[CHOOSE i \in DOMAIN ops : ops[i].value = sym]

FirstBindsTighter(a, b) ==
    \/ a.precedence > b.precedence
    \/ a.precedence = b.precedence /\ b.associativity = "left"

(***************************************************************************)
(* C4: binary precedence and associativity.  For binary operators a and b  *)
(* and operands x, y, z the tokens x a y b z yield x y a z b when a's      *)
(* precedence is higher than b's, or the precedences are equal and b is    *)
(* left-associative, and x y z b a otherwise.                              *)
(***************************************************************************)
C4_BinaryPrecedence ==
    (pc \in {"returned", "raised"} /\ IsXAYBZ(tokens))
        => /\ pc = "returned"
           /\ Arities_of(output_queue)
                = (IF FirstBindsTighter(DeclaredAs(tokens[2]), DeclaredAs(tokens[4]))
                   THEN <<0, 0, 2, 0, 2>> ELSE <<0, 0, 0, 2, 2>>)
           /\ Symbols_of(output_queue)
                = (IF FirstBindsTighter(DeclaredAs(tokens[2]), DeclaredAs(tokens[4]))
                   THEN <<tokens[1], tokens[3], tokens[2], tokens[5], tokens[4]>>
                   ELSE <<tokens[1], tokens[3], tokens[5], tokens[4], tokens[2]>>)

\* A * B * A was shunted with a right-associative "*": A B A * *
C4_Witness ==
    /\ pc = "returned"
    /\ tokens = << <<"A">>, <<"*">>, <<"B">>, <<"*">>, <<"A">> >>
    /\ ops[1].associativity = "right"
    /\ Symbols_of(output_queue) = << <<"A">>, <<"B">>, <<"A">>, <<"*">>, <<"*">> >>

(***************************************************************************)
(* A postfix operator after an operand and after a group.                  *)
(***************************************************************************)
ArrayRPNToken == unary_postfix_operator_dict(ops, ARRAY)

Accepted(toks) == shunt_tokens(toks, ops, delim_pairs).raised = "none"
Output(toks) == shunt_tokens(toks, ops, delim_pairs).output

LastOperand(rpn) == Max({ i \in DOMAIN rpn : rpn[i].arg_count = 0 })

InsertAfterLastOperand(rpn, t) ==
    SubSeq(rpn, 1, LastOperand(rpn)) \o <<t>>
        \o SubSeq(rpn, LastOperand(rpn) + 1, Len(rpn))

\* "(" g ")" "[]" with g a non-empty list shunt_tokens accepts
IsGroupThenArray(toks) ==
    /\ Len(toks) >= 4
    /\ toks[1] = <<"(">> /\ toks[Len(toks) - 1] = <<")">> /\ toks[Len(toks)] = ARRAY
    /\ Accepted(SubSeq(toks, 2, Len(toks) - 2))

\* t x "[]" with x an operand and t x a list shunt_tokens accepts
IsOperandThenArray(toks) ==
    /\ Len(toks) >= 2
    /\ toks[Len(toks) - 1] \in Operands /\ toks[Len(toks)] = ARRAY
    /\ Accepted(SubSeq(toks, 1, Len(toks) - 1))

(***************************************************************************)
(* C6: parentheses change the grouping of a postfix operator.  A|B[]       *)
(* yields A B [] | while (A|B)[] yields A B | [], and A|B[] equals         *)
(* (A|B[]); a postfix operator that follows a closing delimiter applies to *)
(* the whole delimited group, and one that follows an operand applies to   *)
(* that operand only, whatever the relative precedence of the postfix and  *)
(* the binary operator.                                                    *)
(***************************************************************************)
C6_PostfixGrouping ==
    pc \in {"returned", "raised"}
        => /\ \A x, y \in Operands :
                /\ tokens = <<x, <<"|">>, y, ARRAY>> =>
                     /\ pc = "returned"
                     /\ Symbols_of(output_queue) = <<x, y, ARRAY, <<"|">> >>
                /\ tokens = Grouped(<<x, <<"|">>, y>>) \o <<ARRAY>> =>
                     /\ pc = "returned"
                     /\ Symbols_of(output_queue) = <<x, y, <<"|">>, ARRAY>>
                /\ tokens = Grouped(<<x, <<"|">>, y, ARRAY>>) =>
                     /\ pc = "returned"
                     /\ Symbols_of(output_queue) = <<x, y, ARRAY, <<"|">> >>
           /\ IsGroupThenArray(tokens) =>
                /\ pc = "returned"
                /\ output_queue
                     = Append(Output(SubSeq(tokens, 2, Len(tokens) - 2)), ArrayRPNToken)
           /\ IsOperandThenArray(tokens) =>
                /\ pc = "returned"
                /\ output_queue
                     = InsertAfterLastOperand(
                           Output(SubSeq(tokens, 1, Len(tokens) - 1)), ArrayRPNToken)

\* (A|B)[] was shunted with "|" binding tighter than "[]": A B | []
C6_Witness ==
    /\ pc = "returned"
    /\ tokens = Grouped(<< <<"A">>, <<"|">>, <<"B">> >>) \o <<ARRAY>>
    /\ ops[1].precedence < ops[2].precedence
    /\ Symbols_of(output_queue) = << <<"A">>, <<"B">>, <<"|">>, ARRAY >>

(***************************************************************************)
(* C7: redundant outer delimiters are transparent.  For every non-empty    *)
(* input s that shunt accepts with a given operator list and the default   *)
(* delimiter pair, shunt("(" + s + ")") returns exactly the postfix        *)
(* sequence shunt(s) returns.                                              *)
(***************************************************************************)
C7_OuterDelimiters ==
    (pc = "returned" /\ input_data # <<>> /\ delim_pairs = DEFAULT_DELIMS)
        => /\ shunt(Parens(input_data), ops, delim_pairs).raised = "none"
           /\ shunt(Parens(input_data), ops, delim_pairs).output = output_queue

\* the same for the adapter's operators only
C7_OuterDelimitersAdapter ==
    (pc = "returned" /\ input_data # <<>> /\ delim_pairs = DEFAULT_DELIMS /\ ops = OPS)
        => /\ shunt(Parens(input_data), ops, delim_pairs).raised = "none"
           /\ shunt(Parens(input_data), ops, delim_pairs).output = output_queue

(***************************************************************************)
(* The characters of the input.                                            *)
(***************************************************************************)
IsNotWhitespace(c) == c # " "
WithoutWhitespace(s) == SelectSeq(s, IsNotWhitespace)

Pending == IF tk_current = None THEN <<>> ELSE tk_current

(***************************************************************************)
(* C8: tokenization loses nothing.  For every input string and every set   *)
(* of non-empty predefined tokens, the concatenation of the tokens         *)
(* tokenize_from_generator returns, in order, equals the input with all    *)
(* whitespace removed, and no emitted token is empty.  While the scan      *)
(* runs, the tokens emitted so far, the pending basic token and the rest   *)
(* of the input make up the stripped input.                                *)
(***************************************************************************)
C8_TokenizationLosesNothing ==
    /\ pc = "scan" =>
          /\ Flatten(tokens) \o Pending \o tk_input = WithoutWhitespace(input_data)
          /\ \A i \in DOMAIN tokens : tokens[i] # <<>>
    /\ pc = "shunt_tokens" =>
          /\ Flatten(tokens) = WithoutWhitespace(input_data)
          /\ \A i \in DOMAIN tokens : tokens[i] # <<>>

\* "A []" was split into A and [] with "[" predefined as well
C8_Witness ==
    /\ pc = "shunt_tokens"
    /\ input_data = <<"A", " ", "[", "]">>
    /\ <<"[">> \in Symbols(ops, delim_pairs)
    /\ tokens = << <<"A">>, ARRAY >>

(***************************************************************************)
(* The match at the current position.                                      *)
(***************************************************************************)
Matching == { t \in Symbols(ops, delim_pairs) : startswith(tk_input, t) }
Longest == CHOOSE t \in Matching : \A u \in Matching : Len(u) <= Len(t)
Flushed == IF tk_current = None THEN tokens ELSE Append(tokens, tk_current)

C9_Step ==
    pc = "scan"
        => IF tk_input = <<>>
           THEN tokens' = Flushed
           ELSE IF Matching # {}
           THEN /\ tokens' = Append(Flushed, Longest)
                /\ tk_current' = None
                /\ tk_input' = SubSeq(tk_input, Len(Longest) + 1, Len(tk_input))
           ELSE /\ tokens' = tokens
                /\ tk_current' = Append(Pending, tk_input[1])
                /\ tk_input' = Tail(tk_input)

(***************************************************************************)
(* C9: longest-match scanning.  At every position of the stripped input    *)
(* where a predefined token is a prefix of the remaining input,            *)
(* yield_longest_match flushes the pending basic token (if any) and emits  *)
(* the longest predefined token that is a prefix of the remaining input;   *)
(* where none matches, the character joins the pending basic token, which  *)
(* is emitted at the next match or at the end of the input.                *)
(***************************************************************************)
C9_LongestMatch == [][C9_Step]_vars

\* "|[]" was split into |[ and ] with |[, [] and | predefined
C9_Witness ==
    /\ pc = "shunt_tokens"
    /\ input_data = <<"|", "[", "]">>
    /\ Symbols(ops, delim_pairs) = { <<"|", "[">>, ARRAY, <<"|">> }
    /\ tokens = << <<"|", "[">>, <<"]">> >>

(***************************************************************************)
(* The opening delimiters still open.                                      *)
(***************************************************************************)
\* the opening delimiters of a token list that no closing delimiter has closed,
\* the innermost last
RECURSIVE StillOpen(_, _)
StillOpen(toks, open) ==
    IF toks = <<>> THEN open
    ELSE IF Head(toks) \in opening_delims(delim_pairs)
    THEN StillOpen(Tail(toks), Append(open, Head(toks)))
    ELSE IF Head(toks) \in closing_delims(delim_pairs) /\ open # <<>>
    THEN StillOpen(Tail(toks), SubSeq(open, 1, Len(open) - 1))
    ELSE StillOpen(Tail(toks), open)

Open == StillOpen(SubSeq(tokens, 1, ConsumedCount), <<>>)

InnermostBelongsToOtherPair ==
    /\ Open # <<>>
    /\ \E i \in DOMAIN delim_pairs :
          /\ delim_pairs[i].opening = Open[Len(Open)]
          /\ delim_pairs[i].closing # Head(data)

AtClosingDelim ==
    pc = "loop" /\ data # <<>> /\ Head(data) \in closing_delims(delim_pairs)

C10_Step ==
    /\ (AtClosingDelim /\ InnermostBelongsToOtherPair)
          => pc' = "raised" /\ raised' = "NonMatchingDelimitersException"
    /\ (AtClosingDelim /\ ConsumedCount = 0)
          => pc' = "raised" /\ raised' = "StartsWithClosingDelimiterException"
    /\ (pc = "loop" /\ data = <<>> /\ Open # <<>>)
          => pc' = "raised" /\ raised' = "UnusedTokensException"

(***************************************************************************)
(* C10: delimiter errors.  With the delimiter pairs "(" ")" and "[" "]"    *)
(* active, shunt fails with NonMatchingDelimitersException whenever a      *)
(* closing delimiter arrives while the innermost still-open opening        *)
(* delimiter belongs to the other pair; with                               *)
(* StartsWithClosingDelimiterException when a closing delimiter is the     *)
(* first token; and with UnusedTokensException when the input ends while   *)
(* an opening delimiter is still unclosed, however many operators are      *)
(* pending above it.                                                       *)
(***************************************************************************)
C10_DelimiterErrors == [][C10_Step]_vars

\* the same, the first part for closing delimiters that arrive after an operand
C10_StepAfterOperand ==
    /\ (AtClosingDelim /\ InnermostBelongsToOtherPair /\ output_queue # <<>>)
          => pc' = "raised" /\ raised' = "NonMatchingDelimitersException"
    /\ (AtClosingDelim /\ ConsumedCount = 0)
          => pc' = "raised" /\ raised' = "StartsWithClosingDelimiterException"
    /\ (pc = "loop" /\ data = <<>> /\ Open # <<>>)
          => pc' = "raised" /\ raised' = "UnusedTokensException"

C10_DelimiterErrorsAfterOperand == [][C10_StepAfterOperand]_vars

(***************************************************************************)
(* The failures of shunt.                                                  *)
(***************************************************************************)
DocumentedFailures ==
    { "NonMatchingDelimitersException", "StartsWithClosingDelimiterException",
      "StartsWithNonPrefixUnaryOperatorException", "UnaryPrefixOperatorExpected",
      "BinaryOrUnaryPostfixOperatorExpected", "UnusedTokensException",
      "ValueError" }

\* a closing delimiter arrives after some operand while no delimiter is open
ClosingWithoutOpening ==
    /\ data # <<>>
    /\ Head(data) \in closing_delims(delim_pairs)
    /\ output_queue # <<>>
    /\ Open = <<>>

(***************************************************************************)
(* C11: closed set of failures.  For every input string shunt either       *)
(* returns a postfix sequence or fails with one of the documented kinds;   *)
(* this covers a closing delimiter that arrives after some operand while   *)
(* no opening delimiter is open (A) and A+B) ), which is reported as one   *)
(* of the documented delimiter errors.                                     *)
(***************************************************************************)
C11_ClosedFailures ==
    pc = "raised" => raised \in DocumentedFailures

\* the same for the inputs in which no closing delimiter arrives while no
\* delimiter is open
C11_ClosedFailuresWhenOpen ==
    (pc = "raised" /\ ~ClosingWithoutOpening) => raised \in DocumentedFailures

(***************************************************************************)
(* An input that begins with a postfix operator.                           *)
(***************************************************************************)
\* the symbol is declared as a unary-postfix operator and as nothing else
DeclaredOnlyPostfix(token) ==
    /\ \E i \in DOMAIN ops : ops[i].value = token
    /\ \A i \in DOMAIN ops :
          ops[i].value = token => ops[i].unary_position = "postfix"

\* the call has failed on its first token, a postfix operator
FailedOnLeadingPostfix ==
    /\ pc = "raised"
    /\ tokens # <<>>
    /\ ConsumedCount = 0
    /\ DeclaredOnlyPostfix(tokens[1])

(***************************************************************************)
(* C12: an input that begins with a non-prefix unary operator (an operator *)
(* declared only as unary-postfix, met while nothing is on the output      *)
(* queue) makes the shunting-yard fail with                                *)
(* StartsWithNonPrefixUnaryOperatorException.                              *)
(***************************************************************************)
C12_StartsWithPostfix ==
    FailedOnLeadingPostfix
        => raised = "StartsWithNonPrefixUnaryOperatorException"

\* the failure the loop reports for such an input
C12_StartsWithPostfixReported ==
    FailedOnLeadingPostfix => raised = "UnaryPrefixOperatorExpected"

(***************************************************************************)
(* An operator next to a delimiter.                                        *)
(***************************************************************************)
\* the loop is at an operator and the token processed before it is in toks
AtOperatorAfter(toks) ==
    /\ AtOperator
    /\ ConsumedCount > 0
    /\ tokens[ConsumedCount] \in toks

ResolvedAsPrefix ==
    IF pc' = "raised" THEN raised' = "UnaryPrefixOperatorExpected"
    ELSE IsPrefixOp(rpn_token')

ResolvedAsPostfixOrBinary ==
    IF pc' = "raised" THEN raised' = "BinaryOrUnaryPostfixOperatorExpected"
    ELSE IsPostfixOp(rpn_token') \/ IsBinaryOp(rpn_token')

C13_Step ==
    /\ AtOperatorAfter(opening_delims(delim_pairs)) => ResolvedAsPrefix
    /\ AtOperatorAfter(closing_delims(delim_pairs)) => ResolvedAsPostfixOrBinary

(***************************************************************************)
(* C13: an operator symbol that directly follows an opening delimiter is   *)
(* resolved as a unary-prefix operator, whatever token was processed       *)
(* before that opening delimiter (the start of the input, a binary         *)
(* operator, a prefix operator of any associativity, an operand), and an   *)
(* operator that directly follows a closing delimiter is resolved as a     *)
(* binary or unary-postfix operator.                                       *)
(***************************************************************************)
C13_OperatorAfterDelimiter == [][C13_Step]_vars

\* the part about the closing delimiter
C13_StepAfterClosing ==
    AtOperatorAfter(closing_delims(delim_pairs)) => ResolvedAsPostfixOrBinary

C13_OperatorAfterClosingDelimiter == [][C13_StepAfterClosing]_vars

\* the opening delimiter is the first token or follows a binary operator
OpeningAfterStartOrBinary ==
    /\ ConsumedCount > 0
    /\ \/ ConsumedCount = 1
       \/ /\ ConsumedCount > 2
          /\ tokens[ConsumedCount - 1] \in {<<"^">>, <<"-">>}
          /\ tokens[ConsumedCount - 2] \in Operands

C13_StepAfterStartOrBinary ==
    (AtOperatorAfter(opening_delims(delim_pairs)) /\ OpeningAfterStartOrBinary)
        => ResolvedAsPrefix

C13_OperatorAfterOpeningDelimiter == [][C13_StepAfterStartOrBinary]_vars

(***************************************************************************)
(* util.py: pop_before on every pair of operator tokens.  The operator op1 *)
(* is on the stack, op2 is the incoming operator, and the loop of          *)
(* shunt_tokens that pops while pop_before holds is run on them.           *)
(***************************************************************************)
MaxPrecedence == 2

Precedences == 0 .. MaxPrecedence

OperatorTokens ==
    { RPNToken(1, <<<<"-">>, None>>, p, a) :
        p \in Precedences, a \in Associativities }
    \cup { RPNToken(1, <<None, <<"!">>>>, p, a) :
        p \in Precedences, a \in Associativities }
    \cup { RPNToken(2, <<None, <<"+">>, None>>, p, a) :
        p \in Precedences, a \in Associativities }

InitPopBefore ==
    \E op1 \in OperatorTokens, op2 \in OperatorTokens :
        /\ ops = <<>>
        /\ delim_pairs = DEFAULT_DELIMS
        /\ input_data = None
        /\ pc = "pop"
        /\ tokens = <<>>
        /\ tk_input = <<>>
        /\ tk_current = None
        /\ data = <<>>
        /\ output_queue = <<>>
        /\ op_rpn_stack = <<op1>>
        /\ previous = None
        /\ rpn_token = op2
        /\ raised = "none"
        /\ ast = None
        /\ printed = None
        /\ super_types = None

\* shunt_tokens, lines 324-336: pop while pop_before holds, push the operator
PopWhile ==
    /\ pc = "pop"
    /\ LET pp == PopOperators(op_rpn_stack, output_queue, rpn_token)
       IN  /\ output_queue' = pp[2]
           /\ op_rpn_stack' = Append(pp[1], rpn_token)
    /\ pc' = "popped"
    /\ UNCHANGED <<Args, TokVars, data, previous, rpn_token, raised, ast, printed, super_types>>

SpecPopBefore == InitPopBefore /\ [][PopWhile]_vars

\* the pair the loop has been run on, and whether op1 has been popped
Op1 == IF output_queue # <<>> THEN output_queue[1] ELSE op_rpn_stack[1]
Op2 == rpn_token
Op1Popped == output_queue # <<>>

HigherOrEqualLeft(op1, op2) ==
    \/ op1.precedence > op2.precedence
    \/ op1.precedence = op2.precedence /\ op2.associativity = "left"

\* the rule with "true when op1 is a unary-prefix operator"
RuleWithPrefix(op1, op2) ==
    IF op2.arg_count = 1 /\ op1.arg_count = 2 THEN FALSE
    ELSE IF IsPrefixOp(op1) THEN TRUE
    ELSE HigherOrEqualLeft(op1, op2)

\* the rule with "true when op2 is not unary and op1 is a unary-postfix
\* operator"
RuleWithPostfix(op1, op2) ==
    IF op2.arg_count = 1 /\ op1.arg_count = 2 THEN FALSE
    ELSE IF op2.arg_count # 1 /\ IsPostfixOp(op1) THEN TRUE
    ELSE HigherOrEqualLeft(op1, op2)

MaxTreeDepth == 2

PREFIX_HIGH == RPNToken(1, <<<<"1">>, None>>, 1, "none")
PREFIX_LOW == RPNToken(1, <<<<"0">>, None>>, 0, "none")
POSTFIX_HIGH == RPNToken(1, <<None, <<"!">>>>, 1, "none")
BINARY_HIGH == RPNToken(2, <<None, <<"+">>, None>>, 1, "left")
BINARY_LOW == RPNToken(2, <<None, <<"-">>, None>>, 0, "left")

TreeOperatorTokens ==
    << PREFIX_HIGH, PREFIX_LOW, POSTFIX_HIGH, BINARY_HIGH, BINARY_LOW >>

TreeLeaves == { RPNNode(0, ValueRPNToken(<<"2">>), <<>>) }

RECURSIVE TreesUpTo(_)
TreesUpTo(depth) ==
    IF depth = 0 THEN TreeLeaves
    ELSE LET sub == TreesUpTo(depth - 1)
         IN  sub
             \cup { RPNNode(1, TreeOperatorTokens[i], <<c>>) : i \in 1 .. 3, c \in sub }
             \cup { RPNNode(2, TreeOperatorTokens[i], <<l, r>>) :
                        i \in 4 .. 5, l \in sub, r \in sub }

Trees == TreesUpTo(MaxTreeDepth)

RECURSIVE TokensOfTree(_)
TokensOfTree(node) ==
    IF node.arg_count = 0 THEN {}
    ELSE {node.value}
         \cup UNION { TokensOfTree(node.children[i]) : i \in DOMAIN node.children }

\* the operator an operator token of a tree stands for
OperatorOfToken(t) ==
    Operator(IF t.arg_count = 2 THEN t.values[2]
             ELSE IF t.values[2] = None THEN t.values[1] ELSE t.values[2],
             t.precedence,
             IF t.arg_count = 1 THEN "True" ELSE "False",
             IF t.arg_count = 2 THEN "None"
             ELSE IF t.values[2] = None THEN "prefix" ELSE "postfix",
             t.associativity)

\* the operator list derived from the tree
rpn_tree_to_ops(node) ==
    LET InTree(t) == t \in TokensOfTree(node)
        used == SelectSeq(TreeOperatorTokens, InTree)
    IN  [i \in DOMAIN used |-> OperatorOfToken(used[i])]

\* calls of shunt on the string of a tree, with the operators of the tree
InitTrees ==
    \E node \in Trees : InitShunt(rpn_tree_to_ops(node), DEFAULT_DELIMS, Str(node))

SpecTrees == InitTrees /\ [][Next]_vars

\* the input is the string of the tree, the operators are those of the tree
IsPrintOf(node) == input_data = Str(node) /\ ops = rpn_tree_to_ops(node)

(***************************************************************************)
(* C15: print-parse-print stability for arbitrary trees.  For every RPN    *)
(* tree node built from value leaves and unary-prefix, unary-postfix and   *)
(* binary operator nodes, with the operator list derived from the tree,    *)
(* shunt(str(node), ops) and rpn_to_ast succeed and                        *)
(* str(rpn_to_ast(shunt(str(node), ops))) = str(node); this includes a     *)
(* prefix operator of precedence 1 applied to a prefix operator of         *)
(* precedence 0 applied to a value (the string 102).                       *)
(***************************************************************************)
C15_PrintParsePrint ==
    \A node \in Trees :
        (pc \in {"done", "raised"} /\ IsPrintOf(node))
            => (pc = "done" /\ printed = Str(node))

\* a prefix operator is applied to a prefix operator of lower precedence
RECURSIVE HasLowerPrefixUnderPrefix(_)
HasLowerPrefixUnderPrefix(node) ==
    /\ node.arg_count > 0
    /\ \/ /\ IsPrefixOp(node.value)
          /\ IsPrefixOp(node.children[1].value)
          /\ node.children[1].arg_count = 1
          /\ node.children[1].value.precedence < node.value.precedence
       \/ \E i \in DOMAIN node.children : HasLowerPrefixUnderPrefix(node.children[i])

\* the trees without such a pair of prefix operators are printed, parsed and
\* printed to the same string
C15_PrintParsePrintOrdered ==
    \A node \in Trees :
        (/\ pc \in {"done", "raised"}
         /\ IsPrintOf(node)
         /\ ~HasLowerPrefixUnderPrefix(node))
            => (pc = "done" /\ printed = Str(node))

(***************************************************************************)
(* util.py: ValueNode, OperatorNode, postfix_to_ast.  The postfix list     *)
(* holds operators and tokens; a token of the list is held in a record     *)
(* [token |-> t], so that isinstance(_current, Operator) is a test of the  *)
(* fields.                                                                 *)
(***************************************************************************)
MaxRpnLen == 4

TokenEntry(token) == [token |-> token]

IsOperatorEntry(e) == "unary" \in DOMAIN e

ValueNode(value) == [value |-> value, precedence |-> 0 - 1]

OperatorNode(op, children) ==
    [value |-> op.value, precedence |-> op.precedence, unary |-> op.unary,
     unary_position |-> op.unary_position, associativity |-> op.associativity,
     children |-> children]

IsOperatorNode(node) == "children" \in DOMAIN node

\* _validate_child_count: a "both" operator counts as unary (it is truthy)
validate_child_count(op, children) ==
    IF op.unary # "False" THEN Len(children) = 1 ELSE Len(children) = 2

\* the binary children with the right-hand side first
BinaryChildren_right_first(left, right) == <<right, left>>

\* line 484
BinaryChildren(left, right) == <<left, right>>

\* _parse_as_far_as_possible: [node, rest, raised]
Failed(exc) == [node |-> None, rest |-> <<>>, raised |-> exc]

RECURSIVE parse_as_far_as_possible(_)
parse_as_far_as_possible(input) ==
    IF input = <<>> THEN Failed("IndexError")
    ELSE
      LET current == input[Len(input)]
          popped  == SubSeq(input, 1, Len(input) - 1)
      IN  IF ~IsOperatorEntry(current)
          THEN [node |-> ValueNode(current.token), rest |-> popped,
                raised |-> "none"]
          ELSE IF current.unary = "True"
          THEN LET c == parse_as_far_as_possible(popped)
               IN  IF c.raised # "none" THEN Failed(c.raised)
                   ELSE IF ~validate_child_count(current, <<c.node>>)
                   THEN Failed("ValidationError")
                   ELSE [node |-> OperatorNode(current, <<c.node>>),
                         rest |-> c.rest, raised |-> "none"]
          ELSE IF current.unary = "False"
          THEN LET r == parse_as_far_as_possible(popped)
               IN  IF r.raised # "none" THEN Failed(r.raised)
                   ELSE
                     LET l == parse_as_far_as_possible(r.rest)
                     IN  IF l.raised # "none" THEN Failed(l.raised)
                         ELSE IF ~validate_child_count(
                                     current, BinaryChildren(l.node, r.node))
                         THEN Failed("ValidationError")
                         ELSE [node |-> OperatorNode(
                                   current, BinaryChildren(l.node, r.node)),
                               rest |-> l.rest, raised |-> "none"]
          ELSE Failed("NotImplementedError")

\* _parse, lines 500-506: [node, raised]
postfix_to_ast(input) ==
    LET p == parse_as_far_as_possible(input)
    IN  IF p.raised # "none" THEN [node |-> None, raised |-> p.raised]
        ELSE IF p.rest # <<>> THEN [node |-> None, raised |-> "ValueError"]
        ELSE [node |-> p.node, raised |-> "none"]

\* _util.py: the prefix operator NOOP
OPERATOR_NOOP == Operator(<<"N", "O", "O", "P">>, 0, "True", "prefix", "none")

\* the entries of the postfix lists: two names and the three operators
PostfixEntries ==
    { TokenEntry(<<"A">>), TokenEntry(<<"B">>),
      OPERATOR_UNION, OPERATOR_ARRAY, OPERATOR_NOOP }

\* the caller's list after _parse_as_far_as_possible(input): every
\* input_data.pop() of line 469 that was executed has removed its element
RECURSIVE input_data_after(_)
input_data_after(input) ==
    IF input = <<>> THEN <<>>
    ELSE
      LET current == input[Len(input)]
          popped  == SubSeq(input, 1, Len(input) - 1)
      IN  IF ~IsOperatorEntry(current) THEN popped
          ELSE IF current.unary = "True" THEN input_data_after(popped)
          ELSE IF current.unary = "False"
          THEN LET r == parse_as_far_as_possible(popped)
               IN  IF r.raised # "none" THEN input_data_after(popped)
                   ELSE input_data_after(r.rest)
          ELSE popped

\* a call postfix_to_ast(input_data=rpn); input_data is the caller's list
\* object, output_queue keeps the list as it was passed
InitPostfixToAst ==
    \E rpn \in SeqsUpTo(PostfixEntries, MaxRpnLen) :
        /\ ops = OPS
        /\ delim_pairs = DEFAULT_DELIMS
        /\ input_data = rpn
        /\ pc = "postfix_to_ast"
        /\ tokens = <<>>
        /\ tk_input = <<>>
        /\ tk_current = None
        /\ data = <<>>
        /\ output_queue = rpn
        /\ op_rpn_stack = <<>>
        /\ previous = None
        /\ rpn_token = None
        /\ raised = "none"
        /\ ast = None
        /\ printed = None
        /\ super_types = None

PostfixToAst ==
    /\ pc = "postfix_to_ast"
    /\ LET r == postfix_to_ast(input_data)
       IN  /\ ast' = r.node
           /\ raised' = r.raised
           /\ pc' = IF r.raised = "none" THEN "ast" ELSE "raised"
    /\ input_data' = input_data_after(input_data)
    /\ UNCHANGED <<ops, delim_pairs, TokVars, ShuntVars, printed, super_types>>

SpecPostfixToAst == InitPostfixToAst /\ [][PostfixToAst]_vars

\* the number of operands on the evaluation stack after the list, or -1 when
\* an operator lacks an operand
RECURSIVE StackDepth(_)
StackDepth(rpn) ==
    IF rpn = <<>> THEN 0
    ELSE LET before == StackDepth(SubSeq(rpn, 1, Len(rpn) - 1))
             e == rpn[Len(rpn)]
         IN  IF before < 0 THEN 0 - 1
             ELSE IF ~IsOperatorEntry(e) THEN before + 1
             ELSE IF e.unary = "True"
             THEN (IF before >= 1 THEN before ELSE 0 - 1)
             ELSE (IF before >= 2 THEN before - 1 ELSE 0 - 1)

WellFormedPostfix(rpn) == StackDepth(rpn) = 1

Arity(node) == IF node.unary = "True" THEN 1 ELSE 2

RECURSIVE ChildCountsAreArities(_)
ChildCountsAreArities(node) ==
    IsOperatorNode(node) =>
        /\ Len(node.children) = Arity(node)
        /\ \A i \in DOMAIN node.children : ChildCountsAreArities(node.children[i])

RECURSIVE PostOrder(_)
PostOrder(node) ==
    IF ~IsOperatorNode(node) THEN <<TokenEntry(node.value)>>
    ELSE LET below == [i \in DOMAIN node.children |-> PostOrder(node.children[i])]
             self == Operator(node.value, node.precedence, node.unary,
                              node.unary_position, node.associativity)
         IN  Flatten(below) \o <<self>>

(***************************************************************************)
(* C16: postfix-to-AST reconstruction.  For every well-formed postfix      *)
(* sequence of values, unary operators and binary operators,               *)
(* postfix_to_ast returns a tree in which every operator node has exactly  *)
(* as many children as its arity (1 for unary in either position, 2 for    *)
(* binary), the children are in left-to-right source order (the operand    *)
(* popped first becomes the right child), and the post-order traversal of  *)
(* the tree equals the input sequence.                                     *)
(***************************************************************************)
C16_PostfixToAst ==
    (pc # "postfix_to_ast" /\ WellFormedPostfix(output_queue))
        => /\ pc = "ast"
           /\ ChildCountsAreArities(ast)
           /\ PostOrder(ast) = output_queue
           /\ (IsOperatorNode(ast) /\ ast.unary = "False")
                 => PostOrder(ast.children[2])
                       = SubSeq(output_queue,
                                Len(output_queue) - Len(PostOrder(ast.children[2])),
                                Len(output_queue) - 1)

\* the tree of A B NOOP | : the union of A and of NOOP applied to B
C16_Witness ==
    /\ pc = "ast"
    /\ output_queue = << TokenEntry(<<"A">>), TokenEntry(<<"B">>),
                         OPERATOR_NOOP, OPERATOR_UNION >>
    /\ ast = OperatorNode(OPERATOR_UNION,
                 << ValueNode(<<"A">>),
                    OperatorNode(OPERATOR_NOOP, <<ValueNode(<<"B">>)>>) >>)

\* postfix_to_ast has been run on a list that does not reduce to one tree
MalformedParsed == pc # "postfix_to_ast" /\ ~WellFormedPostfix(output_queue)

(***************************************************************************)
(* C17: malformed postfix is rejected with the resolution error.           *)
(* postfix_to_ast fails with the ValueError "Postfix notation was not      *)
(* resolvable" for every postfix sequence that does not reduce to exactly  *)
(* one tree, both when tokens remain unconsumed after the top-level parse  *)
(* and when some operator lacks an operand (the empty sequence and [A, |]  *)
(* included); no other kind of failure and no tree is produced.            *)
(***************************************************************************)
C17_MalformedPostfix ==
    MalformedParsed => (pc = "raised" /\ raised = "ValueError")

\* no tree is produced for such a list, and the failure is the resolution
\* error or the IndexError of a pop from the empty list
C17_MalformedPostfixFails ==
    MalformedParsed
        => (pc = "raised" /\ ast = None /\ raised \in {"ValueError", "IndexError"})

\* some suffix of the list is a well-formed postfix list
HasWellFormedSuffix(rpn) ==
    \E i \in DOMAIN rpn : WellFormedPostfix(SubSeq(rpn, i, Len(rpn)))

\* the resolution error is the failure of the lists with leftover tokens
C17_LeftoverTokens ==
    MalformedParsed
        => (raised = "ValueError" <=> HasWellFormedSuffix(output_queue))

(***************************************************************************)
(* _shunt/__init__.py: tokenize and shunt, the functions the domain        *)
(* adapter calls.  The output list and the stack hold operators and        *)
(* tokens; a token is held in a record [token |-> t].                      *)
(***************************************************************************)
MaxUnionLen == 5

any_starts_with(candidates, prefix) ==
    \E t \in candidates : startswith(t, prefix)

\* the tried lengths run from min(max length, len(input_string)) down to 2;
\* None stands for the ValueError
get_longest_match(candidates, input_string) ==
    LET longest == Max({ Len(t) : t \in candidates })
        bound == IF longest < Len(input_string) THEN longest
                 ELSE Len(input_string)
        lengths == { n \in 2 .. bound : SubSeq(input_string, 1, n) \in candidates }
    IN  IF lengths = {} THEN None
        ELSE SubSeq(input_string, 1, Max(lengths))

FlushCurrent(toks, current) ==
    IF current # <<>> THEN Append(toks, current) ELSE toks

RECURSIVE TokenizeLoop(_, _, _, _, _)
TokenizeLoop(rest_data, current, toks, single, multi) ==
    IF rest_data = <<>> THEN FlushCurrent(toks, current)
    ELSE
      LET next == <<Head(rest_data)>>
          rest == Tail(rest_data)
      IN  IF next \in single
          THEN TokenizeLoop(rest, <<>>, Append(FlushCurrent(toks, current), next),
                            single, multi)
          ELSE IF any_starts_with(multi, next)
          THEN LET match == get_longest_match(multi, rest_data)
               IN  IF match # None
                   THEN TokenizeLoop(removeprefix(rest, Tail(match)), <<>>,
                                     Append(FlushCurrent(toks, current), match),
                                     single, multi)
                   ELSE TokenizeLoop(rest, current, toks, single, multi)
          ELSE TokenizeLoop(rest, current \o next, toks, single, multi)

tokenize(s, o, d) ==
    LET symbols == operator_tokens(o) \cup opening_delims(d) \cup closing_delims(d)
    IN  TokenizeLoop(StripWhitespace(s), <<>>, <<>>, symbols,
                     { t \in symbols : Len(t) > 1 })

\* _operator_dict: the last operator declared with the symbol
operator_dict(o, token) == o[Max({ i \in DOMAIN o : o[i].value = token })]

\* _closing_delim_dict: the opening delimiter a closing delimiter awaits
closing_delim_dict(d, token) ==
    d[Max({ i \in DOMAIN d : d[i].closing = token })].opening

\* the operators on top of the stack that are popped before op
RECURSIVE PopHigher(_, _, _)
PopHigher(stack, out, op) ==
    IF /\ stack # <<>>
       /\ IsOperatorEntry(stack[Len(stack)])
       /\ \/ stack[Len(stack)].precedence > op.precedence
          \/ /\ stack[Len(stack)].precedence = op.precedence
             /\ op.associativity = "left"
    THEN PopHigher(SubSeq(stack, 1, Len(stack) - 1),
                   Append(out, stack[Len(stack)]), op)
    ELSE <<stack, out>>

\* <<stack, output, ok>>; not ok is the IndexError of _op_stack[-1]
RECURSIVE PopToDelim(_, _)
PopToDelim(stack, out) ==
    IF stack = <<>> THEN <<stack, out, FALSE>>
    ELSE IF ~IsOperatorEntry(stack[Len(stack)]) THEN <<stack, out, TRUE>>
    ELSE PopToDelim(SubSeq(stack, 1, Len(stack) - 1),
                    Append(out, stack[Len(stack)]))

\* <<output, raised>>
RECURSIVE DrainOpStack(_, _)
DrainOpStack(stack, out) ==
    IF stack = <<>> THEN <<out, "none">>
    ELSE IF IsOperatorEntry(stack[Len(stack)])
    THEN DrainOpStack(SubSeq(stack, 1, Len(stack) - 1),
                      Append(out, stack[Len(stack)]))
    ELSE <<out, "ValueError">>

\* the loop of shunt and the final drain: [raised, output]
RECURSIVE OperatorShuntLoop(_, _, _, _, _)
OperatorShuntLoop(rest_data, out, stack, o, d) ==
    IF rest_data = <<>>
    THEN LET dr == DrainOpStack(stack, out)
         IN  [raised |-> dr[2],
              output |-> IF dr[2] = "none" THEN dr[1] ELSE <<>>]
    ELSE
      LET next == Head(rest_data)
          rest == Tail(rest_data)
          fail(exc) == [raised |-> exc, output |-> <<>>]
      IN  IF next \in operator_tokens(o)
          THEN LET op == operator_dict(o, next)
                   pp == PopHigher(stack, out, op)
               IN  IF out = <<>> /\ ~(op.unary # "False" /\ op.unary_position = "prefix")
                   THEN fail("TypeError")
                   ELSE OperatorShuntLoop(rest, pp[2], Append(pp[1], op), o, d)
          ELSE IF next \in opening_delims(d)
          THEN OperatorShuntLoop(rest, out, Append(stack, TokenEntry(next)), o, d)
          ELSE IF next \in closing_delims(d)
          THEN LET pd == PopToDelim(stack, out)
               IN  IF out = <<>> THEN fail("TypeError")
                   ELSE IF ~pd[3] THEN fail("IndexError")
                   ELSE IF pd[1][Len(pd[1])].token # closing_delim_dict(d, next)
                   THEN fail("ValueError")
                   ELSE OperatorShuntLoop(
                            rest, pd[2], SubSeq(pd[1], 1, Len(pd[1]) - 1), o, d)
          ELSE OperatorShuntLoop(rest, Append(out, TokenEntry(next)), stack, o, d)

shunt_operators(s, o, d) == OperatorShuntLoop(tokenize(s, o, d), <<>>, <<>>, o, d)

(***************************************************************************)
(* util.py: ValueNode.__str__ and OperatorNode.__str__ (an operator usable *)
(* as unary and binary is never in a tree: postfix_to_ast rejects it).     *)
(***************************************************************************)
RECURSIVE NodeStr(_)
NodeStr(node) ==
    IF ~IsOperatorNode(node) THEN node.value
    ELSE IF node.unary = "False"
    THEN LET left == node.children[1]
             right == node.children[2]
             left_parens ==
                 \/ 0 <= left.precedence /\ left.precedence < node.precedence
                 \/ /\ 0 <= left.precedence
                    /\ left.precedence <= node.precedence
                    /\ node.associativity = "right"
             right_parens ==
                 0 <= right.precedence /\ right.precedence < node.precedence
         IN  (IF left_parens THEN Parens(NodeStr(left)) ELSE NodeStr(left))
                \o node.value
                \o (IF right_parens THEN Parens(NodeStr(right)) ELSE NodeStr(right))
    ELSE LET child == node.children[1]
             child_string ==
                 IF 0 <= child.precedence /\ child.precedence <= node.precedence
                 THEN Parens(NodeStr(child)) ELSE NodeStr(child)
         IN  IF node.unary_position = "prefix" THEN node.value \o child_string
             ELSE child_string \o node.value

(***************************************************************************)
(* union_type_expression.py: UnionTypeExpression made from a string.       *)
(***************************************************************************)
\* _regex, ^.+\|.+$ : a "|" with a character before it and one after it
regex_fullmatch(v) == \E i \in 2 .. Len(v) - 1 : v[i] = "|"

\* the container of one member
TypeExpression(type_declaration) == [type_declaration |-> type_declaration]

TypeExpressionStr(t) == NodeStr(t.type_declaration)

\* "|".join of the strings
RECURSIVE JoinUnion(_)
JoinUnion(strings) ==
    IF strings = <<>> THEN <<>>
    ELSE IF Len(strings) = 1 THEN strings[1]
    ELSE strings[1] \o <<"|">> \o JoinUnion(Tail(strings))

UnionChars == { "A", "B", "|" }

\* a call UnionTypeExpression.validate(v) with a string v
InitUnion ==
    \E v \in SeqsUpTo(UnionChars, MaxUnionLen) :
        /\ ops = OPS
        /\ delim_pairs = DEFAULT_DELIMS
        /\ input_data = v
        /\ pc = "validate"
        /\ tokens = <<>>
        /\ InitLocals

\* _extract_and_parse_types, lines 168-175: the pattern and the call of shunt
ExtractShunt ==
    /\ pc = "validate"
    /\ IF ~regex_fullmatch(input_data)
       THEN /\ raised' = "StrRegexError"
            /\ pc' = "raised"
            /\ UNCHANGED <<tokens, output_queue>>
       ELSE LET r == shunt_operators(input_data, ops, delim_pairs)
            IN  /\ tokens' = tokenize(input_data, ops, delim_pairs)
                /\ output_queue' = r.output
                /\ raised' = r.raised
                /\ pc' = IF r.raised = "none" THEN "shunted" ELSE "raised"
    /\ UNCHANGED <<Args, tk_input, tk_current, data, op_rpn_stack, previous,
                   rpn_token, ast, printed, super_types>>

\* lines 176-192: the last entry is the union, the tree is built
ExtractParse ==
    /\ pc = "shunted"
    /\ LET last == output_queue[Len(output_queue)]
           r == postfix_to_ast(output_queue)
       IN  IF output_queue = <<>>
           THEN raised' = "IndexError" /\ pc' = "raised" /\ UNCHANGED ast
           ELSE IF ~(IsOperatorEntry(last) /\ last = OPERATOR_UNION)
           THEN raised' = "PydanticValueError" /\ pc' = "raised" /\ UNCHANGED ast
           ELSE IF r.raised = "ValueError"
           THEN raised' = "ValidationError" /\ pc' = "raised" /\ UNCHANGED ast
           ELSE IF r.raised # "none"
           THEN raised' = r.raised /\ pc' = "raised" /\ UNCHANGED ast
           ELSE ast' = r.node /\ pc' = "parsed" /\ UNCHANGED raised
    /\ UNCHANGED <<Args, TokVars, ShuntVars, printed, super_types>>

\* lines 194-199 and __init__: one member for each child of the root
ExtractMembers ==
    /\ pc = "parsed"
    /\ IF ~IsOperatorNode(ast)
       THEN raised' = "PydanticValueError" /\ pc' = "raised" /\ UNCHANGED super_types
       ELSE /\ super_types' = [i \in DOMAIN ast.children |->
                                  TypeExpression(ast.children[i])]
            /\ pc' = "validated"
            /\ UNCHANGED raised
    /\ UNCHANGED <<Args, TokVars, ShuntVars, ast, printed>>

\* __str__, lines 267-268
UnionStr ==
    /\ pc = "validated"
    /\ printed' = JoinUnion([i \in DOMAIN super_types |->
                                TypeExpressionStr(super_types[i])])
    /\ pc' = "done"
    /\ UNCHANGED <<Args, TokVars, ShuntVars, raised, ast, super_types>>

NextUnion == ExtractShunt \/ ExtractParse \/ ExtractMembers \/ UnionStr

SpecUnion == InitUnion /\ [][NextUnion]_vars

\* the names of A1|A2|...|An
RECURSIVE SplitUnion(_, _)
SplitUnion(v, name) ==
    IF v = <<>> THEN <<name>>
    ELSE IF Head(v) = "|" THEN <<name>> \o SplitUnion(Tail(v), <<>>)
    ELSE SplitUnion(Tail(v), Append(name, Head(v)))

Names(v) == SplitUnion(v, <<>>)

IsUnionOfNames(v) ==
    /\ Len(Names(v)) >= 2
    /\ \A i \in DOMAIN Names(v) : IsName(Names(v)[i])

NameMembers(v) == [i \in DOMAIN Names(v) |-> TypeExpression(ValueNode(Names(v)[i]))]

(***************************************************************************)
(* C18: union flattening in the domain adapter.  Parsing the expression    *)
(* A1|A2|...|An (n >= 2, each Ai a type name) through UnionTypeExpression  *)
(* yields a union whose ordered member list is exactly [A1, A2, ..., An]   *)
(* (n members, one per name), and printing that union gives back           *)
(* A1|A2|...|An.                                                           *)
(***************************************************************************)
C18_UnionFlattening ==
    (pc \in {"done", "raised"} /\ IsUnionOfNames(input_data))
        => /\ pc = "done"
           /\ super_types = NameMembers(input_data)
           /\ printed = input_data

\* the union is made and printed back, and a union of two names has the two
\* names as its members
C18_UnionOfTwo ==
    (pc \in {"done", "raised"} /\ IsUnionOfNames(input_data))
        => /\ pc = "done"
           /\ printed = input_data
           /\ Len(super_types) = 2
           /\ Len(Names(input_data)) = 2 => super_types = NameMembers(input_data)

(***************************************************************************)
(* token_types.py: the construction of an Operator from keyword arguments. *)
(* An argument that is not passed is "omitted"; the validator of a field   *)
(* runs on a value that is passed, and a field that is omitted takes its   *)
(* default without validation.                                             *)
(***************************************************************************)
OperatorArguments ==
    [ symbol : { <<"-">>, <<"|">> },
      precedence : Precedences,
      unary : { "True", "False", "both" },
      unary_position : { "omitted", "None", "prefix", "postfix" },
      associativity : { "omitted", "left", "right", "none" } ]

\* _ensure_position_is_defined: TRUE when the validator returns v
ensure_position_is_defined(v, unary) ==
    IF unary \in { "True", "both" } THEN v \in { "postfix", "prefix" }
    ELSE v = "None"

\* the defaults of the fields unary_position and associativity
FieldOrDefault(argument, default) ==
    IF argument = "omitted" THEN default ELSE argument

\* a call Operator(symbol=..., precedence=..., unary=..., ...); the keyword
\* arguments are held in input_data
InitOperator ==
    \E arguments \in OperatorArguments :
        /\ ops = <<>>
        /\ delim_pairs = DEFAULT_DELIMS
        /\ input_data = arguments
        /\ pc = "construct"
        /\ tokens = <<>>
        /\ InitLocals

ConstructOperator ==
    /\ pc = "construct"
    /\ IF /\ input_data.unary_position # "omitted"
          /\ ~ensure_position_is_defined(input_data.unary_position, input_data.unary)
       THEN /\ raised' = "ValidationError"
            /\ pc' = "raised"
            /\ UNCHANGED ops
       ELSE /\ ops' = << Operator(input_data.symbol, input_data.precedence,
                                  input_data.unary,
                                  FieldOrDefault(input_data.unary_position, "None"),
                                  FieldOrDefault(input_data.associativity, "left")) >>
            /\ pc' = "constructed"
            /\ UNCHANGED raised
    /\ UNCHANGED <<delim_pairs, input_data, TokVars, ShuntVars, ast, printed,
                   super_types>>

SpecOperator == InitOperator /\ [][ConstructOperator]_vars

\* the configurations the construction is to reject
UnaryWithoutPosition ==
    /\ input_data.unary \in { "True", "both" }
    /\ input_data.unary_position \in { "None", "omitted" }

BinaryWithPosition ==
    /\ input_data.unary = "False"
    /\ input_data.unary_position \in { "prefix", "postfix" }

BinaryWithoutAssociativity ==
    /\ input_data.unary = "False"
    /\ input_data.associativity = "none"

\* the constructed operator is unary with a position, or binary with no
\* position and an associativity
WellConfigured(op) ==
    \/ op.unary \in { "True", "both" } /\ op.unary_position \in { "prefix", "postfix" }
    \/ /\ op.unary = "False"
       /\ op.unary_position = "None"
       /\ op.associativity \in { "left", "right" }

(***************************************************************************)
(* C19: Operator construction enforces its configuration invariant.        *)
(* Constructing an Operator fails whenever it is unary and no              *)
(* unary_position is given (passed as None or omitted), whenever it is     *)
(* binary and a unary_position is given, and whenever it is binary with    *)
(* associativity none; hence every constructed Operator is either unary    *)
(* with position prefix or postfix, or binary with no position and         *)
(* associativity left or right.                                            *)
(***************************************************************************)
C19_OperatorConstruction ==
    /\ (pc # "construct"
          /\ (UnaryWithoutPosition \/ BinaryWithPosition \/ BinaryWithoutAssociativity))
          => pc = "raised"
    /\ pc = "constructed" => WellConfigured(ops[1])

\* the construction fails exactly when a position is passed that does not
\* fit the arity
C19_PositionPassed ==
    pc # "construct"
        => (pc = "raised"
              <=> \/ BinaryWithPosition
                  \/ UnaryWithoutPosition /\ input_data.unary_position = "None")

(***************************************************************************)
(* Calls of shunt_tokens with every list of up to MaxOpsLen operators over *)
(* the symbols "-" and "!", each a prefix, a postfix or a binary operator. *)
(***************************************************************************)
MaxOpsLen == 2
MaxAmbiguousLen == 2

DeclaredOperators ==
    { Operator(v, 1, "True", "prefix", "none") : v \in { <<"-">>, <<"!">> } }
    \cup { Operator(v, 1, "True", "postfix", "none") : v \in { <<"-">>, <<"!">> } }
    \cup { Operator(v, 1, "False", "None", "left") : v \in { <<"-">>, <<"!">> } }

AmbiguousLexemes == { <<"A">>, <<"-">>, <<"!">>, <<"(">>, <<")">> }

InitAmbiguous ==
    \E o \in SeqsUpTo(DeclaredOperators, MaxOpsLen),
       toks \in SeqsUpTo(AmbiguousLexemes, MaxAmbiguousLen) :
        InitShuntTokens(o, DEFAULT_DELIMS, toks)

SpecAmbiguous == InitAmbiguous /\ [][NextShuntTokens]_vars

\* some symbol is declared as a unary-postfix operator and as a binary or a
\* unary-prefix operator
Ambiguous(o) ==
    \E i \in DOMAIN o, j \in DOMAIN o :
        /\ o[i].value = o[j].value
        /\ o[i].unary = "True" /\ o[i].unary_position = "postfix"
        /\ \/ o[j].unary = "False"
           \/ o[j].unary = "True" /\ o[j].unary_position = "prefix"

C20_Step ==
    pc = "shunt_tokens"
        => IF Ambiguous(ops)
           THEN /\ pc' = "raised"
                /\ raised' = "ValueError"
                /\ UNCHANGED <<data, output_queue, op_rpn_stack, previous>>
           ELSE pc' = "loop" /\ raised' = "none"

(***************************************************************************)
(* C20: ambiguous operator sets are rejected up front.  shunt_tokens fails *)
(* before consuming any token for every operator list in which some symbol *)
(* is declared both as a unary-postfix operator and as a binary or         *)
(* unary-prefix operator, and it accepts operator lists in which a symbol  *)
(* is declared both as unary-prefix and as binary.                         *)
(***************************************************************************)
C20_AmbiguousOperators == [][C20_Step]_vars

\* a list with "-" as postfix and as prefix operator is rejected with tokens
\* to consume
C20_Witness ==
    /\ pc = "raised"
    /\ raised = "ValueError"
    /\ tokens # <<>>
    /\ data = <<>> /\ output_queue = <<>>
    /\ ops = << Operator(<<"-">>, 1, "True", "postfix", "none"),
                Operator(<<"-">>, 1, "True", "prefix", "none") >>

\* a list with "-" as prefix and as binary operator is accepted: the loop is
\* entered
C20_WitnessAccepted ==
    /\ pc = "loop"
    /\ tokens # <<>>
    /\ ops = << Operator(<<"-">>, 1, "True", "prefix", "none"),
                Operator(<<"-">>, 1, "False", "None", "left") >>


(***************************************************************************)
(* C21: the parser operations do not modify their arguments.  After a call *)
(* to shunt_tokens or to postfix_to_ast, whether it returned or failed,    *)
(* the list passed by the caller has the same elements in the same order   *)
(* and the operator and delimiter configuration is unchanged, so that      *)
(* passing the same list a second time gives the same result.              *)
(***************************************************************************)
C21_ArgumentsUnchanged ==
    (pc \in {"ast", "raised"} /\ tokens = <<>>)
        => /\ input_data = output_queue
           /\ ops = OPS
           /\ delim_pairs = DEFAULT_DELIMS
           /\ postfix_to_ast(input_data) = [node |-> ast, raised |-> raised]

\* postfix_to_ast leaves of the caller's list what it has not consumed: the
\* empty list after every call that returned a tree
C21_PostfixToAstConsumes ==
    pc \in {"ast", "raised"}
        => /\ input_data = input_data_after(output_queue)
           /\ Len(input_data) < Len(output_queue) \/ output_queue = <<>>
           /\ pc = "ast" => input_data = <<>>

\* shunt_tokens rebinds its local _data (line 250) and leaves the caller's
\* list, held in tokens, and the configuration as they were passed
C21_ShuntTokensStep ==
    pc \in {"loop", "returned", "raised"}
        => /\ tokens' = tokens
           /\ ops' = ops
           /\ delim_pairs' = delim_pairs

C21_ShuntTokensFrame == [][C21_ShuntTokensStep]_vars

\* the tree 2+(2+2): a binary child to the right of a binary parent of the
\* same precedence
RIGHT_NESTED ==
    RPNNode(2, BINARY_HIGH,
            << RPNNode(0, ValueRPNToken(<<"2">>), <<>>),
               RPNNode(2, BINARY_HIGH,
                       << RPNNode(0, ValueRPNToken(<<"2">>), <<>>),
                          RPNNode(0, ValueRPNToken(<<"2">>), <<>>) >>) >>)

(***************************************************************************)
(* C22: printing never changes grouping.  For every RPN tree t whose       *)
(* operators form a valid operator list, rpn_to_ast(shunt(str(t), ops)) is *)
(* structurally equal to t: RPNNode.__str__ wraps a child in parentheses   *)
(* whenever concatenating it unwrapped would parse to a different tree,    *)
(* for binary children under binary parents of equal precedence on either  *)
(* side and for binary children under prefix and postfix parents of lower, *)
(* equal or higher precedence.                                             *)
(***************************************************************************)
C22_PrintingKeepsGrouping ==
    \A node \in Trees :
        (pc \in {"ast", "done", "raised"} /\ IsPrintOf(node))
            => (pc # "raised" /\ ast = node)

\* the string of 2+(2+2) is 2+2+2, the string of (2+2)+2
C22_RightNestedPrinted ==
    IsPrintOf(RIGHT_NESTED) => input_data = <<"2", "+", "2", "+", "2">>

\* the tree parsed from the string of 2+(2+2) is (2+2)+2
C22_RightNestedParsed ==
    (pc = "ast" /\ IsPrintOf(RIGHT_NESTED))
        => ast = RPNNode(2, BINARY_HIGH,
                         << RIGHT_NESTED.children[2], RIGHT_NESTED.children[1] >>)

\* a tree that is parsed from a string printed from a tree prints to that string
C22_ParsedPrintsTheInput ==
    pc = "done" => printed = input_data

(***************************************************************************)
(* RPNNode.__str__ on trees whose binary operators differ in precedence    *)
(* and in associativity                                                    *)
(***************************************************************************)
MaxStrDepth == 2

BINARY_HIGH_RIGHT == RPNToken(2, <<None, <<"^">>, None>>, 1, "right")
BINARY_LOW_RIGHT == RPNToken(2, <<None, <<"=">>, None>>, 0, "right")

StrOperatorTokens ==
    << PREFIX_HIGH, POSTFIX_HIGH,
       BINARY_HIGH, BINARY_LOW, BINARY_HIGH_RIGHT, BINARY_LOW_RIGHT >>

RECURSIVE StrTreesUpTo(_)
StrTreesUpTo(depth) ==
    IF depth = 0 THEN TreeLeaves
    ELSE LET sub == StrTreesUpTo(depth - 1)
         IN  sub
             \cup { RPNNode(1, StrOperatorTokens[i], <<c>>) : i \in 1 .. 2, c \in sub }
             \cup { RPNNode(2, StrOperatorTokens[i], <<l, r>>) :
                        i \in 3 .. 6, l \in sub, r \in sub }

\* a call str(node)
InitStr ==
    \E node \in StrTreesUpTo(MaxStrDepth) :
        /\ ops = <<>>
        /\ delim_pairs = DEFAULT_DELIMS
        /\ input_data = None
        /\ pc = "ast"
        /\ tokens = <<>>
        /\ tk_input = <<>>
        /\ tk_current = None
        /\ data = <<>>
        /\ output_queue = <<>>
        /\ op_rpn_stack = <<>>
        /\ previous = None
        /\ rpn_token = None
        /\ raised = "none"
        /\ ast = node
        /\ printed = None
        /\ super_types = None

SpecStr == InitStr /\ [][StrAst]_vars

IsBinaryNode(node) == node.arg_count = 2

\* the string of a child, in parentheses when wrapped
Bracketed(wrapped, child) == IF wrapped THEN Parens(Str(child)) ELSE Str(child)

\* the documented rule for the left child of a binary node
LeftWrappedAsDocumented(self, left) ==
    /\ IsBinaryNode(left)
    /\ \/ left.value.precedence < self.value.precedence
       \/ (left.value.precedence = self.value.precedence
             /\ self.value.associativity = "right")

\* the documented rule for the right child of a binary node
RightWrappedAsDocumented(self, right) ==
    /\ IsBinaryNode(right)
    /\ right.value.precedence < self.value.precedence

PrintedAsDocumented(self) ==
    Bracketed(LeftWrappedAsDocumented(self, self.children[1]), self.children[1])
        \o self.value.values[2]
        \o Bracketed(RightWrappedAsDocumented(self, self.children[2]),
                     self.children[2])

(***************************************************************************)
(* C23: the bracketing rule of a binary node in RPNNode.__str__.  The left *)
(* child is wrapped in parentheses exactly when it is a binary subtree     *)
(* whose precedence is strictly lower than the parent's, or equal while    *)
(* the parent is right-associative; the right child is wrapped exactly     *)
(* when it is a binary subtree of strictly lower precedence; value leaves  *)
(* and unary subtrees are never wrapped.                                   *)
(***************************************************************************)
C23_BinaryBracketing ==
    (pc = "done" /\ IsBinaryNode(ast)) => printed = PrintedAsDocumented(ast)

\* the binary operators of the node and of its children are left-associative
LeftAssociativeOnly(self) ==
    /\ self.value.associativity = "left"
    /\ \A i \in DOMAIN self.children :
           IsBinaryNode(self.children[i])
               => self.children[i].value.associativity = "left"

\* among left-associative binary operators the documented rule is the rule
\* of __str__
C23_BinaryBracketingLeftAssociative ==
    (pc = "done" /\ IsBinaryNode(ast) /\ LeftAssociativeOnly(ast))
        => printed = PrintedAsDocumented(ast)

\* value leaves and unary subtrees are never wrapped by a binary node
C23_OnlyBinaryChildrenWrapped ==
    (pc = "done" /\ IsBinaryNode(ast))
        => \E wl, wr \in BOOLEAN :
              /\ wl => IsBinaryNode(ast.children[1])
              /\ wr => IsBinaryNode(ast.children[2])
              /\ printed = Bracketed(wl, ast.children[1])
                              \o ast.value.values[2]
                              \o Bracketed(wr, ast.children[2])

\* the operand counter after the postfix sequence of RPN tokens: a value
\* adds one operand, a unary operator needs one, a binary operator needs two
\* and removes one; -1 when an operator lacks an operand
RECURSIVE OperandCounter(_)
OperandCounter(rpn) ==
    IF rpn = <<>> THEN 0
    ELSE LET before == OperandCounter(SubSeq(rpn, 1, Len(rpn) - 1))
             t == rpn[Len(rpn)]
         IN  IF before < 0 THEN 0 - 1
             ELSE IF t.arg_count = 0 THEN before + 1
             ELSE IF t.arg_count = 1
             THEN (IF before >= 1 THEN before ELSE 0 - 1)
             ELSE (IF before >= 2 THEN before - 1 ELSE 0 - 1)

(***************************************************************************)
(* C24: every successful parse is a well-formed postfix expression.  When  *)
(* shunt_tokens returns, scanning its output with an operand counter (a    *)
(* value adds one, a unary operator needs at least one, a binary operator  *)
(* needs at least two and removes one) never lacks an operand and ends     *)
(* with exactly one; this holds for every input, including an input that   *)
(* ends in a binary operator, an input in which an operand is directly     *)
(* followed by a delimited group, and the empty input.                     *)
(***************************************************************************)
C24_WellFormedOutput ==
    pc = "returned" => OperandCounter(output_queue) = 1

\* the empty input is accepted with the empty output
C24_EmptyInput ==
    (pc \in {"returned", "raised"} /\ tokens = <<>>)
        => (pc = "returned" /\ output_queue = <<>>)

\* an input A ^ that ends in a binary operator is accepted with the binary
\* operator after its only operand
C24_EndsInBinary ==
    (pc \in {"returned", "raised"} /\ tokens = << <<"A">>, <<"^">> >>)
        => /\ pc = "returned"
           /\ Len(output_queue) = 2
           /\ output_queue[1] = ValueRPNToken(<<"A">>)
           /\ output_queue[2].arg_count = 2

\* an operand directly followed by a delimited group is accepted with two
\* operands and no operator
C24_OperandThenGroup ==
    (/\ pc \in {"returned", "raised"}
     /\ tokens = << <<"A">>, <<"(">>, <<"B">>, <<")">> >>)
        => /\ pc = "returned"
           /\ output_queue = << ValueRPNToken(<<"A">>), ValueRPNToken(<<"B">>) >>

\* two operator tokens at i and i + 1 of the stack, with no sentinel between
AdjacentOperators(stack, i) ==
    /\ i \in 1 .. Len(stack) - 1
    /\ ~IsSentinel(stack[i])
    /\ ~IsSentinel(stack[i + 1])

StackOrdered(stack) ==
    \A i \in 1 .. Len(stack) - 1 :
        AdjacentOperators(stack, i) => ~pop_before(stack[i], stack[i + 1])

\* a step leaves what is below every sentinel of the stack where it is
BelowSentinelsKept ==
    \A i \in DOMAIN op_rpn_stack :
        IsSentinel(op_rpn_stack[i])
            => /\ Len(op_rpn_stack') >= i - 1
               /\ SubSeq(op_rpn_stack', 1, i - 1) = SubSeq(op_rpn_stack, 1, i - 1)

(***************************************************************************)
(* C25: the ordering of the operator stack.  In every state reached by     *)
(* shunt_tokens, for every two operator tokens adjacent on the stack with  *)
(* no sentinel between them, pop_before(lower, upper) is false: an         *)
(* operator is pushed only after every operator that must be evaluated     *)
(* before it has been moved to the output queue; and the operators below a *)
(* sentinel are never popped before that sentinel is.                      *)
(***************************************************************************)
C25_StackOrdering == [](StackOrdered(op_rpn_stack)) /\ [][BelowSentinelsKept]_vars

\* the stack holds a binary operator under a prefix operator after a prefix
\* operator has been popped to the output queue
C25_Witness ==
    /\ pc = "loop"
    /\ \E i \in DOMAIN op_rpn_stack :
          /\ AdjacentOperators(op_rpn_stack, i)
          /\ op_rpn_stack[i].arg_count = 2
    /\ \E j \in DOMAIN output_queue : output_queue[j].arg_count = 1

\* an operator is on the stack below a sentinel while an operator above the
\* sentinel is popped
C25_WitnessBelowSentinel ==
    /\ pc = "loop"
    /\ \E i \in DOMAIN op_rpn_stack :
          /\ IsSentinel(op_rpn_stack[i])
          /\ i > 1
          /\ i = Len(op_rpn_stack)
    /\ \E j \in DOMAIN output_queue : output_queue[j].arg_count > 0

\* the delimiters awaited by the sentinels of the stack, from bottom to top
AwaitedOnStack(stack) ==
    LET sentinels == SelectSeq(stack, IsSentinel)
    IN  [i \in DOMAIN sentinels |-> sentinels[i].awaits]

\* the closing delimiters of the opening delimiters consumed and not closed
AwaitedByOpen ==
    [i \in DOMAIN Open |-> opening_delim_dict(delim_pairs, Open[i])]

\* a consumed closing delimiter has removed the topmost sentinel, which
\* awaited it
ClosingRemovesTopmost ==
    (AtClosingDelim /\ pc' = "loop")
        => LET awaited == AwaitedOnStack(op_rpn_stack)
           IN  /\ awaited # <<>>
               /\ awaited[Len(awaited)] = Head(data)
               /\ AwaitedOnStack(op_rpn_stack')
                     = SubSeq(awaited, 1, Len(awaited) - 1)

(***************************************************************************)
(* C26: the sentinel invariant.  The sentinels on the operator stack, read *)
(* from bottom to top, are exactly the closing delimiters awaited by the   *)
(* opening delimiters consumed and not yet closed, in the order of their   *)
(* opening; a closing delimiter removes exactly one sentinel, the topmost, *)
(* and is accepted only when it equals the value that sentinel awaits.     *)
(***************************************************************************)
C26_Sentinels ==
    /\ [](pc = "loop" => AwaitedOnStack(op_rpn_stack) = AwaitedByOpen)
    /\ [][ClosingRemovesTopmost]_vars

\* "]" has closed "[" inside a "(" that is still open
C26_Witness ==
    /\ pc = "loop"
    /\ AwaitedOnStack(op_rpn_stack) = << <<")">> >>
    /\ \E i \in 1 .. ConsumedCount : tokens[i] = <<"]">>

\* the tokens consumed so far
Consumed == SubSeq(tokens, 1, ConsumedCount)

\* a token that shunt_tokens handles as a delimiter: the operator branch
\* comes first (algorithm.py 257-259, 338-340)
IsDelimiter(token) ==
    TokenKind(token, ops, delim_pairs) \in {"opening", "closing"}

IsNoDelimiter(token) == ~IsDelimiter(token)

IsValueToken(token) == TokenKind(token, ops, delim_pairs) = "value"

\* no operator symbol is also a delimiter symbol
NoOverlap ==
    operator_tokens(ops)
        \cap (opening_delims(delim_pairs) \cup closing_delims(delim_pairs)) = {}

IsValueRPNToken(t) == t.arg_count = 0

IsOperatorOnStack(e) == ~IsSentinel(e)

\* the length of the output queue and the operator tokens of the stack
\* account for the consumed tokens that are no delimiters
TokensConserved ==
    Len(output_queue) + Len(SelectSeq(op_rpn_stack, IsOperatorOnStack))
        = Len(SelectSeq(Consumed, IsNoDelimiter))

\* the operands of the output queue are the consumed operands, in their order
OperandsInInputOrder ==
    LET operands == SelectSeq(Consumed, IsValueToken)
    IN  SelectSeq(output_queue, IsValueRPNToken)
            = [i \in DOMAIN operands |-> ValueRPNToken(operands[i])]

\* the step after the last token does not fail in the length check
LengthCheckPasses ==
    (pc = "loop" /\ data = <<>> /\ NoOverlap)
        => ~(pc' = "raised" /\ raised' = "ValueError")

(***************************************************************************)
(* C27: token conservation.  At every point of a run of shunt_tokens the   *)
(* length of the output queue plus the number of operator tokens on the    *)
(* stack equals the number of non-delimiter tokens consumed so far, and    *)
(* the operands appear in the output in their input order; consequently,   *)
(* when no operator symbol is also a delimiter symbol, the final length    *)
(* check never fails and the length-mismatch error is unreachable.         *)
(***************************************************************************)
C27_TokenConservation ==
    /\ [](pc \in {"loop", "returned"} => (TokensConserved /\ OperandsInInputOrder))
    /\ [][LengthCheckPasses]_vars

\* inside a delimited group two operands are in the output queue and an
\* operator is on the stack above the sentinel
C27_Witness ==
    /\ pc = "loop"
    /\ \E i \in DOMAIN op_rpn_stack : IsSentinel(op_rpn_stack[i])
    /\ \E i \in DOMAIN op_rpn_stack : IsOperatorOnStack(op_rpn_stack[i])
    /\ output_queue = << ValueRPNToken(<<"A">>), ValueRPNToken(<<"B">>) >>

\* shunt_tokens has returned for an input with a delimited group and an
\* operator: the length check has passed
C27_WitnessReturned ==
    /\ pc = "returned"
    /\ \E i \in DOMAIN tokens : IsDelimiter(tokens[i])
    /\ \E j \in DOMAIN output_queue : output_queue[j].arg_count > 0

\* calls of shunt_tokens in which "(" is an opening delimiter and a prefix
\* operator
OverlapOps ==
    << Operator(<<"(">>, 1, "True", "prefix", "none"),
       Operator(<<"+">>, 1, "False", "None", "left") >>

OverlapLexemes == { <<"A">>, <<"+">>, <<"(">>, <<")">> }

InitOverlap ==
    \E toks \in SeqsUpTo(OverlapLexemes, MaxMixedLen) :
        InitShuntTokens(OverlapOps, DEFAULT_DELIMS, toks)

SpecOverlap == InitOverlap /\ [][NextShuntTokens]_vars

\* the tokens are conserved as well when an operator symbol is a delimiter
\* symbol
C27_ConservationWithOverlap ==
    pc \in {"loop", "returned"} => (TokensConserved /\ OperandsInInputOrder)

\* with such a symbol the length check fails: ( A gives the two RPN tokens
\* ( and A where one is expected
C27_LengthCheckWithOverlap ==
    (pc \in {"returned", "raised"} /\ tokens = << <<"(">>, <<"A">> >>)
        => (pc = "raised" /\ raised = "ValueError")

(***************************************************************************)
(* Termination: shunt on the adapter's operators and delimiters, and       *)
(* postfix_to_ast; every step that is enabled is taken, as the statements  *)
(* of a sequential program are                                             *)
(***************************************************************************)
MaxTerminationLen == 3

\* a call postfix_to_ast(input_data=rpn)
InitPostfixToAstOf(rpn) ==
    /\ ops = OPS
    /\ delim_pairs = DEFAULT_DELIMS
    /\ input_data = rpn
    /\ pc = "postfix_to_ast"
    /\ tokens = <<>>
    /\ tk_input = <<>>
    /\ tk_current = None
    /\ data = <<>>
    /\ output_queue = rpn
    /\ op_rpn_stack = <<>>
    /\ previous = None
    /\ rpn_token = None
    /\ raised = "none"
    /\ ast = None
    /\ printed = None
    /\ super_types = None

\* the inputs of shunt: the strings of up to MaxTerminationLen names and
\* operators, as they are and as a delimited group
TerminationLexemes == { <<"A">>, <<"|">>, ARRAY }

TerminationInputs ==
    LET plain == Inputs(TerminationLexemes, MaxTerminationLen)
    IN  plain \cup { <<"(">> \o s \o <<")">> : s \in plain }

InitTermination ==
    \/ \E s \in TerminationInputs : InitShunt(OPS, DEFAULT_DELIMS, s)
    \/ \E rpn \in SeqsUpTo(PostfixEntries, MaxTerminationLen) :
           InitPostfixToAstOf(rpn)

NextTermination == NextShunt \/ PostfixToAst

SpecTermination ==
    InitTermination /\ [][NextTermination]_vars /\ WF_vars(NextTermination)

\* the calls of _parse_as_far_as_possible that postfix_to_ast(input) makes,
\* the first included
RECURSIVE calls(_)
calls(input) ==
    IF input = <<>> THEN 1
    ELSE
      LET current == input[Len(input)]
          popped  == SubSeq(input, 1, Len(input) - 1)
      IN  IF ~IsOperatorEntry(current) THEN 1
          ELSE IF current.unary = "True" THEN 1 + calls(popped)
          ELSE IF current.unary = "False"
          THEN LET r == parse_as_far_as_possible(popped)
               IN  IF r.raised # "none" THEN 1 + calls(popped)
                   ELSE 1 + calls(popped) + calls(r.rest)
          ELSE 1

Finished == pc \in {"returned", "ast", "raised"}

\* an iteration of yield_longest_match removes at least one character
ScanShortens ==
    (pc = "scan" /\ tk_input # <<>>) => Len(tk_input') < Len(tk_input)

\* an iteration of shunt_tokens consumes the first token; what it pops comes
\* from the stack, which keeps its lower part and grows by at most one
LoopConsumes ==
    (pc = "loop" /\ data # <<>> /\ pc' = "loop")
        => /\ data' = Tail(data)
           /\ \E k \in 0 .. Len(op_rpn_stack) :
                 /\ Len(op_rpn_stack') \in {k, k + 1}
                 /\ SubSeq(op_rpn_stack', 1, k) = SubSeq(op_rpn_stack, 1, k)
                 /\ Len(output_queue') - Len(output_queue)
                       <= Len(op_rpn_stack) - k + 1

\* shunt_tokens returns when the tokens are consumed
ReturnsAtEnd == pc' = "returned" => (data = <<>> /\ data' = <<>>)

\* postfix_to_ast makes at most one recursive call for each element
RecursionBounded ==
    pc = "postfix_to_ast" => calls(input_data) - 1 <= Len(input_data)

(***************************************************************************)
(* C28: termination.  For every finite input and every configuration whose *)
(* predefined tokens are all non-empty, yield_longest_match terminates,    *)
(* each iteration removing at least one character; shunt_tokens terminates *)
(* after consuming each token exactly once, its inner pop loops bounded by *)
(* the height of the stack; and postfix_to_ast terminates after at most    *)
(* one recursive call per element.                                         *)
(***************************************************************************)
C28_Termination ==
    /\ <>Finished
    /\ [][ScanShortens /\ LoopConsumes /\ ReturnsAtEnd /\ RecursionBounded]_vars

\* shunt has returned for a delimited group with a two-character operator
\* that was popped to the output queue by the operator after it
C28_Witness ==
    /\ pc = "returned"
    /\ tokens = << <<"(">>, <<"A">>, ARRAY, <<"|">>, <<")">> >>
    /\ Len(output_queue) = 3

\* postfix_to_ast has returned the tree of a list of the greatest length
C28_WitnessPostfixToAst ==
    pc = "ast" /\ tokens = <<>> /\ Len(output_queue) = MaxTerminationLen

\* tokenize_from_generator has returned
Tokenized == pc = "shunt_tokens"

(***************************************************************************)
(* C29: the two tokenizers agree.  For every input string, operator list   *)
(* and delimiter list, the character-scanning tokenize and the             *)
(* generator-based tokenize_from_generator return the same token list;     *)
(* both are checked against the same table of expected outputs, with       *)
(* operator symbols of one and of two characters at the start, in the      *)
(* middle and at the end of the input.                                     *)
(***************************************************************************)
C29_TokenizersAgree ==
    Tokenized => tokens = tokenize(input_data, ops, delim_pairs)

\* every predefined token is one character long
SingleCharacterSymbols ==
    \A t \in Symbols(ops, delim_pairs) : Len(t) = 1

\* the tokenizers agree when every predefined token is one character long
C29_TokenizersAgreeOnCharacters ==
    (Tokenized /\ SingleCharacterSymbols)
        => tokens = tokenize(input_data, ops, delim_pairs)

\* with "[]" predefined, the input A[ is the one token A[ for
\* tokenize_from_generator and the token A for tokenize
C29_UnmatchedFirstCharacter ==
    (/\ Tokenized
     /\ input_data = <<"A", "[">>
     /\ Symbols(ops, delim_pairs) = {ARRAY})
        => /\ tokens = << <<"A", "[">> >>
           /\ tokenize(input_data, ops, delim_pairs) = << <<"A">> >>

(***************************************************************************)
(* tokenizer.py: the order of sorted(symbols, key=len, reverse=True).  The *)
(* symbols are a set, whose iteration order the sort keeps among symbols   *)
(* of equal length: every length-descending order is possible.             *)
(***************************************************************************)
\* the orders of the symbols, whatever their lengths
RECURSIVE SortedOrders_any_order(_)
SortedOrders_any_order(S) ==
    IF S = {} THEN { <<>> }
    ELSE UNION { { <<t>> \o rest : rest \in SortedOrders_any_order(S \ {t}) } :
                 t \in S }

\* line 92: the orders of the symbols in which no symbol precedes a longer one
RECURSIVE SortedOrders(_)
SortedOrders(S) ==
    IF S = {} THEN { <<>> }
    ELSE UNION { { <<t>> \o rest : rest \in SortedOrders(S \ {t}) } :
                 t \in { u \in S : \A v \in S : Len(v) <= Len(u) } }

\* lines 97-104 with one of the orders; the order chosen at an iteration
\* may differ from that of another, which includes every call in which one
\* order is kept
YieldMatchInOrder ==
    /\ pc = "scan"
    /\ tk_input # <<>>
    /\ \E sorted \in SortedOrders(Symbols(ops, delim_pairs)) :
          LET token == FirstMatch(sorted, tk_input)
          IN  /\ token # None
              /\ tokens' = (IF tk_current # None THEN Append(tokens, tk_current)
                            ELSE tokens) \o <<token>>
              /\ tk_input' = removeprefix(tk_input, token)
              /\ tk_current' = None
    /\ UNCHANGED <<Args, pc, ShuntVars, raised, ast, printed, super_types>>

\* lines 105-109 with one of the orders
AccumulateInOrder ==
    /\ pc = "scan"
    /\ tk_input # <<>>
    /\ \E sorted \in SortedOrders(Symbols(ops, delim_pairs)) :
          FirstMatch(sorted, tk_input) = None
    /\ tk_current' = (IF tk_current = None THEN <<>> ELSE tk_current)
                        \o SubSeq(tk_input, 1, 1)
    /\ tk_input' = Tail(tk_input)
    /\ UNCHANGED <<Args, pc, tokens, ShuntVars, raised, ast, printed, super_types>>

NextTokenizeInOrder ==
    \/ TokenizeStart
    \/ YieldMatchInOrder
    \/ AccumulateInOrder
    \/ TokenizeReturn

SpecTokenizeInOrder == InitTokenize /\ [][NextTokenizeInOrder]_vars

(***************************************************************************)
(* C30: tokenization is a deterministic function of the input and of the   *)
(* set of predefined tokens.  The result is the same whatever order the    *)
(* set is iterated in: the order among symbols of equal length in the      *)
(* length-descending sort cannot change which token is emitted.            *)
(***************************************************************************)
C30_OrderIndependent ==
    /\ [](Tokenized => tokens = tokenize_from_generator(input_data, ops, delim_pairs))
    /\ [][\A sorted \in SortedOrders(Symbols(ops, delim_pairs)) :
             (pc = "scan" /\ tk_input # <<>>)
                => /\ FirstMatch(sorted, tk_input) # None
                        => (/\ Len(tokens') > 0
                            /\ tokens'[Len(tokens')] = FirstMatch(sorted, tk_input))
                   /\ FirstMatch(sorted, tk_input) = None => tokens' = tokens]_vars

\* "|[" has been emitted while "[]", of the same length, is predefined too
C30_Witness ==
    /\ Tokenized
    /\ {<<"|", "[">>, ARRAY} \subseteq Symbols(ops, delim_pairs)
    /\ tokens = << <<"|", "[">>, <<"]">> >>
====
